---- MODULE Spec2Model ----
(***************************************************************************)
(* Access-control core of the belief-coaching backend: license-key         *)
(* parsing and issuance, the Stripe subscription check, the email trial    *)
(* stored in the blob store, and the gates requirePro / requireAccess and  *)
(* GET /api/trial/boot.                                                    *)
(*                                                                         *)
(* Strings of the program are sequences of one-character strings, so that  *)
(* trim/split/startsWith/toUpperCase are computed as the code computes     *)
(* them.  Instants are whole seconds since the epoch: the code's           *)
(* millisecond arithmetic (86400 * 1000 ms a day) is carried out in        *)
(* seconds (86400 s a day), every instant of the model being a whole       *)
(* second.                                                                 *)
(***************************************************************************)
EXTENDS Integers, Sequences, FiniteSets, TLC

VARIABLES
  licIn,       \* input string: a key typed by a caller, or a customer id of the provider
  licCid,      \* customer id handed to issueLicenseForCustomerId (Null: key not issued here)
  licKey,      \* license key string under resolution
  licOut,      \* results of customerIdFromLicense on licKey (NotCalled before the call)
  subs,        \* Stripe: the subscriptions (statuses, newest first) of customer cus_A
  subsOut,     \* results of hasActiveSubscription / hasActiveSub on subs
  now,         \* wall clock, seconds since the epoch (new Date())
  TRIAL_DAYS,  \* access.ts: const TRIAL_DAYS = readTrialDays(), read at process start
  stripeKeySet,\* process.env.STRIPE_SECRET_KEY is set
  trials,      \* blob store: trials/<emailKey>.json
  licByEmail,  \* blob store: licenses_by_email/<emailKey>.json
  calls,       \* per request in flight: operation, position, locals
  last,        \* the request answered by the latest step: its inputs and its answer
  lastEnsure,  \* per email key: startedAt returned by the last completed
               \* ensureTrialByEmail, while no put to trials/<emailKey>.json followed
  custMeta,    \* Stripe: metadata.license_key of customer cus_A
  licLatest,   \* blob store: licenses/cus_A.json
  licHistory,  \* blob store: licenses_history/cus_A-<Date.now()>.json, one entry per path
  hooks,       \* per webhook / admin request in flight: handler, position, locals
  histPuts,    \* number of puts to licenses_history/ made so far
  BUCKETS,     \* reports list route: the token bucket of the one client address
  rlCount,     \* licensed requests of that client that reached rateLimit
  rlResp,      \* the latest response of the reports list route
  revoked,     \* the latest completed admin revoke: the subscriptions it listed and chose
  trialEnv,    \* process.env.TRIAL_DAYS as a string (empty: unset)
  jar,         \* a browser: the db_trial_started_at cookie it stored last and when it drops it
  ckResp,      \* the latest answer of the edge middleware or of GET /api/trial/status
  usage,       \* quota.ts: the in-memory map usage, key -> count (0: no entry)
  qResp        \* the latest incAndCheck call: its key, what it returned, the map before
               \* it, and the number of calls of the first caller answered allowed

licVars == <<licIn, licCid, licKey, licOut>>
subVars == <<subs, subsOut>>
gateVars == <<now, TRIAL_DAYS, stripeKeySet, trials, licByEmail, calls, last, lastEnsure>>
gateRest == <<now, TRIAL_DAYS, stripeKeySet, trials, licByEmail, calls, lastEnsure>>
hookVars == <<custMeta, licLatest, licHistory, hooks, histPuts>>
rlVars == <<BUCKETS, rlCount, rlResp>>
revVars == <<revoked>>
edgeVars == <<trialEnv, jar, ckResp, usage, qResp>>
extVars == <<hookVars, rlVars, revVars, edgeVars>>
vars == <<licIn, licCid, licKey, licOut, subs, subsOut,
          now, TRIAL_DAYS, stripeKeySet, trials, licByEmail, calls, last, lastEnsure,
          custMeta, licLatest, licHistory, hooks, histPuts,
          BUCKETS, rlCount, rlResp, revoked,
          trialEnv, jar, ckResp, usage, qResp>>

----------------------------------------------------------------------------
(* Bounds *)

MaxTokens == 4     \* a presented key is a concatenation of at most MaxTokens tokens
MaxSubs == 2       \* at most MaxSubs subscriptions in one listing
MaxInFlightSecs == 2  \* the clock advances at most this far while a request is in flight
MaxHistPuts == 2   \* handlers are started while fewer history puts than this were made

----------------------------------------------------------------------------
(* JavaScript values and string primitives *)

\* null / undefined of a string-valued expression
Null == <<"<null>">>
NoLicOut == [called |-> FALSE, paywall |-> Null, access |-> Null]
NoSubsOut == [called |-> FALSE, paywall |-> FALSE, access |-> FALSE]

Min(S) == CHOOSE x \in S : \A y \in S : x <= y
Max(S) == CHOOSE x \in S : \A y \in S : x >= y

Lowers == <<"a","b","c","d","e","f","g","h","i","j","k","l","m",
            "n","o","p","q","r","s","t","u","v","w","x","y","z">>
Uppers == <<"A","B","C","D","E","F","G","H","I","J","K","L","M",
            "N","O","P","Q","R","S","T","U","V","W","X","Y","Z">>

toUpperCaseChar(ch) ==
  IF \E i \in 1..26 : Lowers[i] = ch
    THEN Uppers[CHOOSE i \in 1..26 : Lowers[i] = ch]
    ELSE ch

toLowerCaseChar(ch) ==
  IF \E i \in 1..26 : Uppers[i] = ch
    THEN Lowers[CHOOSE i \in 1..26 : Uppers[i] = ch]
    ELSE ch

toUpperCase(s) == [i \in 1..Len(s) |-> toUpperCaseChar(s[i])]
toLowerCase(s) == [i \in 1..Len(s) |-> toLowerCaseChar(s[i])]

RECURSIVE trimStart(_)
trimStart(s) ==
  IF s # <<>> /\ Head(s) = " " THEN trimStart(Tail(s)) ELSE s

RECURSIVE trimEnd(_)
trimEnd(s) ==
  IF s # <<>> /\ s[Len(s)] = " " THEN trimEnd(SubSeq(s, 1, Len(s) - 1)) ELSE s

\* String.prototype.trim
trim(s) == trimEnd(trimStart(s))

RECURSIVE splitFrom(_, _)
splitFrom(s, cur) ==
  IF s = <<>> THEN <<cur>>
  ELSE IF Head(s) = "-" THEN <<cur>> \o splitFrom(Tail(s), <<>>)
  ELSE splitFrom(Tail(s), Append(cur, Head(s)))

\* String.prototype.split("-"): "" gives [""], "a-" gives ["a", ""]
split(s) == splitFrom(s, <<>>)

\* String.prototype.startsWith
startsWith(p, pre) == Len(p) >= Len(pre) /\ SubSeq(p, 1, Len(pre)) = pre

\* String.prototype.includes
includes(p, part) ==
  \E i \in 1..(Len(p) + 1) : startsWith(SubSeq(p, i, Len(p)), part)

RECURSIVE concat(_)
concat(ss) == IF ss = <<>> THEN <<>> ELSE Head(ss) \o concat(Tail(ss))

----------------------------------------------------------------------------
(* License keys *)

CusPrefix == <<"c","u","s","_">>
LicPro == <<"L","I","C","-","P","R","O","-">>

HexDigits == <<"0","1","2","3","4","5","6","7","8","9","a","b","c","d","e","f">>

\* Buffer.toString("hex")
toHex(bytes) ==
  concat([i \in 1..Len(bytes) |->
            <<HexDigits[(bytes[i] \div 16) + 1], HexDigits[(bytes[i] % 16) + 1]>>])

\* values a byte of crypto.randomBytes takes in the model
ByteSamples == {10, 202}
RandomBytes4 == [1..4 -> ByteSamples]

\* mutation: the separator before the random suffix is dropped
issueLicenseNoSeparator(customerId, bytes) ==
  LicPro \o customerId \o toUpperCase(toHex(bytes))

\* `LIC-PRO-${customerId}-${short}`, short = randomBytes(4) in upper-case hex
issueLicenseForCustomerId(customerId, bytes) ==
  LET short == toUpperCase(toHex(bytes))
  IN LicPro \o customerId \o <<"-">> \o short

IsCusSegment(p) == startsWith(p, CusPrefix)

\* parts.find((p) => p.startsWith("cus_")): the first such segment, else undefined
findCusSegment(parts) ==
  LET hits == {i \in 1..Len(parts) : IsCusSegment(parts[i])}
  IN IF hits = {} THEN Null ELSE parts[Min(hits)]

\* paywall.ts: (licenseKey || "").trim().split("-").find(startsWith "cus_") || null
customerIdFromLicense(licenseKey) ==
  LET parts == split(trim(licenseKey))
      candidate == findCusSegment(parts)
  IN IF candidate = Null \/ candidate = <<>> THEN Null ELSE candidate

\* access.ts: the same function, private copy
customerIdFromLicenseAccess(licenseKey) ==
  LET parts == split(trim(licenseKey))
      hit == findCusSegment(parts)
  IN IF hit = Null \/ hit = <<>> THEN Null ELSE hit

----------------------------------------------------------------------------
(* Subscription status check *)

\* Stripe.Subscription.Status
Statuses == {"active", "trialing", "past_due", "unpaid", "incomplete",
             "incomplete_expired", "canceled", "paused"}

FoundStatuses == {"active", "trialing", "past_due", "unpaid"}

IsFound(st) == st \in FoundStatuses

\* subs.data.find(s => [...].includes(s.status)); statuses are strings,
\* undefined is "undefined"
findStatus(data) ==
  LET hits == {i \in 1..Len(data) : IsFound(data[i])}
  IN IF hits = {} THEN "undefined" ELSE data[Min(hits)]

\* paywall.ts: first subscription in {active, trialing, past_due, unpaid},
\* then true iff that one is active or trialing
hasActiveSubscription(data) ==
  LET active == findStatus(data)
  IN active # "undefined" /\ (active = "active" \/ active = "trialing")

\* access.ts: the same check
hasActiveSub(data) ==
  LET active == findStatus(data)
  IN active # "undefined" /\ (active = "active" \/ active = "trialing")

----------------------------------------------------------------------------
(* Environment, clock and dates *)

Day == 86400       \* seconds in a day (86400 * 1000 ms in the code)
DefaultTrialDays == 7
MaxTrialDays == 60

Digits == <<"0","1","2","3","4","5","6","7","8","9">>
IsDigit(ch) == \E i \in 1..10 : Digits[i] = ch
DigitValue(ch) == (CHOOSE i \in 1..10 : Digits[i] = ch) - 1

RECURSIVE DecimalValue(_)
DecimalValue(s) ==
  IF s = <<>> THEN 0
  ELSE 10 * DecimalValue(SubSeq(s, 1, Len(s) - 1)) + DigitValue(s[Len(s)])

NaN == [finite |-> FALSE, n |-> 0]

\* Number(str) for the strings of the model: an optional sign and decimal
\* digits, anything else is NaN
Number(raw) ==
  LET neg == raw # <<>> /\ Head(raw) = "-"
      body == IF neg THEN Tail(raw) ELSE raw
  IN IF body = <<>> \/ \E i \in 1..Len(body) : ~IsDigit(body[i])
       THEN NaN
       ELSE [finite |-> TRUE,
             n |-> IF neg THEN 0 - DecimalValue(body) ELSE DecimalValue(body)]

\* access.ts readTrialDays: Number(process.env.TRIAL_DAYS || "7"),
\* finite and > 0 ? Math.min(n, 60) : 7
readTrialDays(env) ==
  LET n == Number(IF env = <<>> THEN <<"7">> ELSE env)
  IN IF n.finite /\ n.n > 0
       THEN (IF n.n < MaxTrialDays THEN n.n ELSE MaxTrialDays)
       ELSE DefaultTrialDays

\* values of process.env.TRIAL_DAYS: unset, not positive, not a number, above
\* the cap
EnvTrialDays == { <<>>, <<"0">>, <<"a","b","c">>, <<"9","9">> }

\* Date.prototype.toISOString: the date part and the time-of-day part
toISOString(t) == <<t \div Day, t % Day>>

\* new Date(iso).getTime()
DateOf(iso) == iso[1] * Day + iso[2]

\* instants the clock takes: the first seconds and the seconds around the
\* expiry of a trial started then
ClockInstants(total) ==
  {t \in {d * Day + o : d \in {0, total}, o \in {-1, 0, 1}} : t >= 0}

----------------------------------------------------------------------------
(* Blob store and the email trial *)

EmailChars == {Lowers[i] : i \in 1..26} \cup {Digits[i] : i \in 1..10} \cup {".", "_", "-"}

RECURSIVE replaceRuns(_, _)
\* e.replace(/[^a-z0-9._-]+/g, "_"): every maximal run of other characters
\* becomes one "_"
replaceRuns(e, inRun) ==
  IF e = <<>> THEN <<>>
  ELSE IF Head(e) \in EmailChars THEN <<Head(e)>> \o replaceRuns(Tail(e), FALSE)
  ELSE IF inRun THEN replaceRuns(Tail(e), TRUE)
  ELSE <<"_">> \o replaceRuns(Tail(e), TRUE)

\* access.ts emailKey
emailKey(emailRaw) == replaceRuns(toLowerCase(trim(emailRaw)), FALSE)

CusA == CusPrefix \o <<"A">>
KeyA == LicPro \o CusA \o <<"-","C","A","0","A","C","A","0","A">>

\* ?email= values: absent, and two spellings of one address
Emails == { <<>>, <<"a","@","b">>, <<" ","A","@","B">> }
EmailKeys == {emailKey(e) : e \in Emails \ {<<>>}}

NoTrialBlob == [exists |-> FALSE, startedAt |-> <<>>]
NoLicBlob == [exists |-> FALSE, licenseKey |-> Null]

NullTrial == [startedAt |-> <<>>, expiresAt |-> <<>>, daysUsed |-> 0,
              daysTotal |-> 0, active |-> FALSE]

Max0(x) == IF x > 0 THEN x ELSE 0

\* mutation: a trial that has run out is treated as no trial at all
readTrialExpiredAsNone(email, blobs, nowT, total) ==
  LET ek == emailKey(email)
      hit == blobs[ek]
  IN IF ~hit.exists \/ hit.startedAt = <<>> THEN NullTrial
     ELSE LET startedAt == DateOf(hit.startedAt)
              expiresAt == startedAt + total * Day
          IN IF nowT >= expiresAt THEN NullTrial
             ELSE [startedAt |-> toISOString(startedAt),
                   expiresAt |-> toISOString(expiresAt),
                   daysUsed |-> Max0((nowT - startedAt) \div Day),
                   daysTotal |-> total,
                   active |-> TRUE]

\* mutation: the trial file is looked up under a path that never matches
readTrialNeverFound(email, blobs, nowT, total) == NullTrial

\* access.ts readTrialByEmail
readTrialByEmail(email, blobs, nowT, total) ==
  LET ek == emailKey(email)
      hit == blobs[ek]
  IN IF ~hit.exists \/ hit.startedAt = <<>> THEN NullTrial
     ELSE LET startedAt == DateOf(hit.startedAt)
              expiresAt == startedAt + total * Day
          IN [startedAt |-> toISOString(startedAt),
              expiresAt |-> toISOString(expiresAt),
              daysUsed |-> Max0((nowT - startedAt) \div Day),
              daysTotal |-> total,
              active |-> nowT < expiresAt]

\* mutation: the expiry instant itself still counts as active
computeCookieTrialInclusive(startIso, nowT, total) ==
  LET started == DateOf(startIso)
      expiresAt == started + total * Day
  IN [startedAt |-> toISOString(started),
      expiresAt |-> toISOString(expiresAt),
      daysUsed |-> Max0((nowT - started) \div Day),
      daysTotal |-> total,
      active |-> nowT <= expiresAt]

\* access.ts computeCookieTrial
computeCookieTrial(startIso, nowT, total) ==
  LET started == DateOf(startIso)
      expiresAt == started + total * Day
  IN [startedAt |-> toISOString(started),
      expiresAt |-> toISOString(expiresAt),
      daysUsed |-> Max0((nowT - started) \div Day),
      daysTotal |-> total,
      active |-> nowT < expiresAt]

NoLink == [found |-> FALSE, licenseKey |-> Null, customerId |-> Null]

\* access.ts findLicenseByEmail
findLicenseByEmail(email, blobs) ==
  LET ek == emailKey(email)
      hit == blobs[ek]
  IN IF ~hit.exists THEN NoLink
     ELSE IF hit.licenseKey = Null \/ hit.licenseKey = <<>> THEN NoLink
     ELSE LET cusId == customerIdFromLicenseAccess(hit.licenseKey)
          IN IF cusId # Null
               THEN [found |-> TRUE, licenseKey |-> hit.licenseKey, customerId |-> cusId]
               ELSE NoLink

----------------------------------------------------------------------------
(* Requests and answers *)

Procs == {"p1", "p2"}

NoReq == [key |-> <<>>, hkey |-> <<>>, email |-> <<>>]

\* paywall.ts readLicenseFrom: (qp || header || "").trim()
readLicenseFrom(req) == trim(IF req.key # <<>> THEN req.key ELSE req.hkey)

NoRet == [kind |-> "none", ok |-> FALSE, status |-> 0, error |-> "", message |-> FALSE,
          upgradeUrl |-> "", via |-> "", customerId |-> Null, mode |-> "",
          trial |-> NullTrial]

\* { ok: false, status, body: { error, message, upgradeUrl: "/pricing" } }
Deny(status, error) ==
  [NoRet EXCEPT !.kind = "verdict", !.status = status, !.error = error,
                !.message = TRUE, !.upgradeUrl = "/pricing"]

\* paywall.ts catch block: no upgradeUrl in the body
PaywallError ==
  [NoRet EXCEPT !.kind = "verdict", !.status = 401, !.error = "PAYWALL_ERROR",
                !.message = TRUE]

AllowLicense(cusId) ==
  [NoRet EXCEPT !.kind = "verdict", !.ok = TRUE, !.via = "license", !.customerId = cusId]

AllowTrial(trial) ==
  [NoRet EXCEPT !.kind = "verdict", !.ok = TRUE, !.via = "trial", !.trial = trial]

\* an exception leaves the function
Threw == [NoRet EXCEPT !.kind = "threw"]

\* NextResponse.json({ mode, message, ...status }, { status: 200 })
BootJson(mode, trial) ==
  [NoRet EXCEPT !.kind = "json", !.status = 200, !.mode = mode, !.message = TRUE,
                !.trial = trial]

BootPro(link) ==
  [NoRet EXCEPT !.kind = "json", !.status = 200, !.mode = "pro", !.message = TRUE,
                !.customerId = link.customerId]

BootError ==
  [NoRet EXCEPT !.kind = "json", !.status = 500, !.error = "TRIAL_BOOT_ERROR",
                !.message = TRUE]

TrialReturn(trial) == [NoRet EXCEPT !.kind = "trialinfo", !.trial = trial]

Idle == [op |-> "none", pc |-> "idle", req |-> NoReq, allowTrial |-> FALSE,
         link |-> NoLink, nowIso |-> <<>>, prev |-> <<>>, had |-> FALSE,
         expired |-> FALSE, usedBilling |-> FALSE, usedBlob |-> FALSE,
         billingThrew |-> FALSE]

NoLast == [op |-> "none", req |-> NoReq, allowTrial |-> FALSE, ret |-> NoRet,
           prev |-> <<>>, had |-> FALSE, expired |-> FALSE, usedBilling |-> FALSE,
           usedBlob |-> FALSE, billingThrew |-> FALSE, wrote |-> FALSE,
           replaced |-> FALSE, ensureRet |-> <<>>]

\* what stripe.subscriptions.list({customer}) can do: throw (network, auth,
\* rate limit, unknown customer) or return the customer's subscriptions;
\* getStripe() throws before any call when the secret is missing
BillingOutcomes(customerId) ==
  IF ~stripeKeySet THEN {[threw |-> TRUE, data |-> <<>>]}
  ELSE {[threw |-> TRUE, data |-> <<>>]} \cup
       (IF customerId = CusA THEN {[threw |-> FALSE, data |-> subs]} ELSE {})

HookProcs == {"h1", "h2"}

\* a blob that is not there
NoLatest == [exists |-> FALSE, licenseKey |-> Null, source |-> ""]

HookIdle == [op |-> "none", pc |-> "idle", licenseKey |-> Null, email |-> <<>>,
             source |-> "", targets |-> {}, listed |-> 0, chosen |-> {}]

\* no admin revoke has completed
NoRevoked == [done |-> FALSE, listed |-> 0, targets |-> {}]

\* nothing issued yet, no webhook or admin request in flight
HookQuiet ==
  /\ custMeta = Null
  /\ licLatest = NoLatest
  /\ licHistory = {}
  /\ hooks = [h \in HookProcs |-> HookIdle]
  /\ histPuts = 0

\* BUCKETS.get(ip) is undefined
NoBucket == [exists |-> FALSE, tokens2 |-> 0, lastRefill |-> 0]
NoListResp == [status |-> 0, error |-> "", retryAfter |-> 0]

RateQuiet ==
  /\ BUCKETS = NoBucket
  /\ rlCount = 0
  /\ rlResp = NoListResp

\* the Cookie request header as parseCookieHeader meets it: whether it holds
\* db_trial_started_at, what that value is (empty, a malformed percent
\* escape, text that is no date, an ISO instant), and whether another cookie
\* of the header holds a malformed percent escape
NoHeader == [has |-> FALSE, kind |-> "none", iso |-> <<0, 0>>, foreignBad |-> FALSE]
NoEdgeReq == [path |-> <<>>, header |-> NoHeader, key |-> <<>>, hdrKey |-> <<>>]
NoSetCookie == [set |-> FALSE, value |-> <<0, 0>>, maxAge |-> 0]
NoMw == [out |-> "none", status |-> 0, error |-> "", cookie |-> NoSetCookie]
NoSt == [threw |-> FALSE, status |-> 0, trialDays |-> 0, hasStartedAt |-> FALSE,
         isActive |-> FALSE, daysLeft |-> 0, hasEndsAt |-> FALSE, endsAtISO |-> <<0, 0>>]
NoJar == [has |-> FALSE, value |-> <<0, 0>>, dropAt |-> 0]
NoCkResp == [op |-> "none", browser |-> FALSE, req |-> NoEdgeReq, at |-> 0,
             prevExpired |-> FALSE, mw |-> NoMw, st |-> NoSt]
NoQResp == [called |-> FALSE, key |-> <<>>, at |-> 0, allowed |-> FALSE, count |-> 0,
            limit |-> 0, swept |-> FALSE, before |-> <<>>, grants |-> 0]

EdgeQuiet ==
  /\ trialEnv = CHOOSE e \in EnvTrialDays : readTrialDays(e) = TRIAL_DAYS
  /\ jar = NoJar
  /\ ckResp = NoCkResp
  /\ usage = <<>>
  /\ qResp = NoQResp

ExtQuiet == HookQuiet /\ RateQuiet /\ revoked = NoRevoked /\ EdgeQuiet

\* the gate variables at rest
GateQuiet ==
  /\ now = 0
  /\ TRIAL_DAYS = DefaultTrialDays
  /\ stripeKeySet = TRUE
  /\ trials = [ek \in EmailKeys |-> NoTrialBlob]
  /\ licByEmail = [ek \in EmailKeys |-> NoLicBlob]
  /\ calls = [p \in Procs |-> Idle]
  /\ last = NoLast
  /\ lastEnsure = [ek \in EmailKeys |-> <<>>]
  /\ ExtQuiet

LicQuiet ==
  /\ licIn = <<>>
  /\ licCid = Null
  /\ licKey = Null
  /\ licOut = NoLicOut
  /\ subsOut = NoSubsOut

----------------------------------------------------------------------------
(* Specification of the license-key functions *)

Tokens == { CusPrefix,
            CusPrefix \o <<"A">>,
            <<"-">>,
            <<" ">>,
            <<"L","I","C">>,
            <<"x">> }

RECURSIVE TokenStrings(_)
TokenStrings(n) ==
  IF n = 0 THEN {<<>>}
  ELSE LET shorter == TokenStrings(n - 1)
       IN shorter \cup {s \o t : s \in shorter, t \in Tokens}

KeyStrings == TokenStrings(MaxTokens)

LicInit ==
  /\ licIn \in KeyStrings
  /\ licCid = Null
  /\ licKey = Null
  /\ licOut = NoLicOut
  /\ subs = <<>>
  /\ subsOut = NoSubsOut
  /\ GateQuiet

\* a caller presents the string as a license key
PresentKey ==
  /\ licKey = Null
  /\ licKey' = licIn
  /\ UNCHANGED <<licIn, licCid, licOut, subVars, gateVars, extVars>>

\* the webhook issues a key for the string as customer id
IssueLicense(bytes) ==
  /\ licKey = Null
  /\ licKey' = issueLicenseForCustomerId(licIn, bytes)
  /\ licCid' = licIn
  /\ UNCHANGED <<licIn, licOut, subVars, gateVars, extVars>>

\* a gate resolves the key
ResolveKey ==
  /\ licKey # Null
  /\ licOut = NoLicOut
  /\ licOut' = [called |-> TRUE, paywall |-> customerIdFromLicense(licKey),
                access |-> customerIdFromLicenseAccess(licKey)]
  /\ UNCHANGED <<licIn, licCid, licKey, subVars, gateVars, extVars>>

LicNext ==
  \/ PresentKey
  \/ \E bytes \in RandomBytes4 : IssueLicense(bytes)
  \/ ResolveKey

SpecLicense == LicInit /\ [][LicNext]_vars

----------------------------------------------------------------------------
(* Specification of the subscription status check *)

SubInit ==
  /\ subs = <<>>
  /\ subsOut = NoSubsOut
  /\ licIn = <<>>
  /\ licCid = Null
  /\ licKey = Null
  /\ licOut = NoLicOut
  /\ GateQuiet

\* Stripe creates a subscription for the customer (newest first in the listing)
StripeCreateSub(st) ==
  /\ Len(subs) < MaxSubs
  /\ subs' = <<st>> \o subs
  /\ subsOut' = NoSubsOut
  /\ UNCHANGED <<licVars, gateVars, extVars>>

\* Stripe changes the status of a subscription
StripeSetStatus(i, st) ==
  /\ i \in 1..Len(subs)
  /\ subs[i] # st
  /\ subs' = [subs EXCEPT ![i] = st]
  /\ subsOut' = NoSubsOut
  /\ UNCHANGED <<licVars, gateVars, extVars>>

CheckSubscription ==
  /\ subsOut = NoSubsOut
  /\ subsOut' = [called |-> TRUE, paywall |-> hasActiveSubscription(subs),
                 access |-> hasActiveSub(subs)]
  /\ UNCHANGED <<subs, licVars, gateVars, extVars>>

SubNext ==
  \/ \E st \in Statuses : StripeCreateSub(st)
  \/ \E i \in 1..MaxSubs, st \in Statuses : StripeSetStatus(i, st)
  \/ CheckSubscription

SpecSubs == SubInit /\ [][SubNext]_vars

----------------------------------------------------------------------------
(* The gates and the trial boot handler *)

AllowPro(cusId) ==
  [NoRet EXCEPT !.kind = "verdict", !.ok = TRUE, !.customerId = cusId]

\* mutation: only the key stored last on the customer is accepted
requireProLatestKeyOnly(req, out) ==
  LET licenseKey == readLicenseFrom(req)
      cusId == customerIdFromLicense(licenseKey)
  IN IF licenseKey = <<>> THEN Deny(402, "UPGRADE_REQUIRED")
     ELSE IF cusId = Null THEN Deny(402, "LEGACY_LICENSE_FORMAT")
     ELSE IF out.threw THEN PaywallError
     ELSE IF ~hasActiveSubscription(out.data) \/ licenseKey # custMeta
       THEN Deny(402, "SUB_INACTIVE")
     ELSE AllowPro(cusId)

\* mutation: the catch block lets the request through
requireProFailOpen(req, out) ==
  LET licenseKey == readLicenseFrom(req)
      cusId == customerIdFromLicense(licenseKey)
  IN IF licenseKey = <<>> THEN Deny(402, "UPGRADE_REQUIRED")
     ELSE IF cusId = Null THEN Deny(402, "LEGACY_LICENSE_FORMAT")
     ELSE IF out.threw THEN AllowPro(cusId)
     ELSE IF ~hasActiveSubscription(out.data) THEN Deny(402, "SUB_INACTIVE")
     ELSE AllowPro(cusId)

\* paywall.ts requirePro; out is what getStripe() and
\* stripe.subscriptions.list do when they are reached
requirePro(req, out) ==
  LET licenseKey == readLicenseFrom(req)
      cusId == customerIdFromLicense(licenseKey)
  IN IF licenseKey = <<>> THEN Deny(402, "UPGRADE_REQUIRED")
     ELSE IF cusId = Null THEN Deny(402, "LEGACY_LICENSE_FORMAT")
     ELSE IF out.threw THEN PaywallError
     ELSE IF ~hasActiveSubscription(out.data) THEN Deny(402, "SUB_INACTIVE")
     ELSE AllowPro(cusId)

\* mutation: past_due and unpaid count as active
requireAccessKeyFlowLenient(key, out) ==
  LET cusId == customerIdFromLicenseAccess(key)
  IN IF cusId = Null THEN Deny(402, "LEGACY_LICENSE_FORMAT")
     ELSE IF out.threw THEN Threw
     ELSE IF findStatus(out.data) # "undefined" THEN AllowLicense(cusId)
     ELSE Deny(402, "SUB_INACTIVE")

\* access.ts requireAccess, 1) license key flow; nothing catches what
\* hasActiveSub throws
requireAccessKeyFlow(key, out) ==
  LET cusId == customerIdFromLicenseAccess(key)
  IN IF cusId = Null THEN Deny(402, "LEGACY_LICENSE_FORMAT")
     ELSE IF out.threw THEN Threw
     ELSE IF hasActiveSub(out.data) THEN AllowLicense(cusId)
     ELSE Deny(402, "SUB_INACTIVE")

\* the trial file of the email exists / exists and has run out
TrialHeld(email) == email # <<>> /\ trials[emailKey(email)].exists
TrialExpired(email) ==
  /\ TrialHeld(email)
  /\ now >= DateOf(trials[emailKey(email)].startedAt) + TRIAL_DAYS * Day

\* a request enters a handler
Begin(op, pc, req, allowTrial) ==
  [Idle EXCEPT !.op = op, !.pc = pc, !.req = req, !.allowTrial = allowTrial,
               !.had = TrialHeld(trim(req.email)),
               !.expired = TrialExpired(trim(req.email))]

\* the record of a request that returns ret
Done(c, ret, wrote, ensureRet) ==
  [op |-> c.op, req |-> c.req, allowTrial |-> c.allowTrial, ret |-> ret,
   prev |-> c.prev, had |-> c.had, expired |-> c.expired,
   usedBilling |-> c.usedBilling, usedBlob |-> c.usedBlob,
   billingThrew |-> c.billingThrew, wrote |-> wrote, replaced |-> FALSE,
   ensureRet |-> ensureRet]

Finish(p, c, ret) ==
  /\ calls' = [calls EXCEPT ![p] = Idle]
  /\ last' = Done(c, ret, FALSE, <<>>)

Billed(c, out) ==
  [c EXCEPT !.usedBilling = stripeKeySet, !.billingThrew = out.threw]

\* time passes; a request in flight is answered within MaxInFlightSecs
Tick(t) ==
  /\ t \in ClockInstants(TRIAL_DAYS)
  /\ t > now
  /\ \/ t - now <= MaxInFlightSecs
     \/ \A p \in Procs : calls[p].pc = "idle"
  /\ now' = t
  /\ last' = NoLast
  /\ UNCHANGED <<TRIAL_DAYS, stripeKeySet, trials, licByEmail, calls, lastEnsure,
                 licVars, subVars, extVars>>

\* requirePro(req): one await, the subscription listing
RequirePro(p, req, out) ==
  /\ calls[p].pc = "idle"
  /\ out \in BillingOutcomes(customerIdFromLicense(readLicenseFrom(req)))
  /\ LET reached == customerIdFromLicense(readLicenseFrom(req)) # Null
         c == Begin("requirePro", "idle", req, FALSE)
     IN Finish(p, IF reached THEN Billed(c, out) ELSE c, requirePro(req, out))
  /\ UNCHANGED <<now, TRIAL_DAYS, stripeKeySet, trials, licByEmail, lastEnsure,
                 licVars, subVars, extVars>>

\* mutation: a caller without key and email gets the first-contact grace
RequireAccessStartAnonymousGrace(p, req, allowTrial, out) ==
  /\ calls[p].pc = "idle"
  /\ out \in BillingOutcomes(customerIdFromLicenseAccess(trim(req.key)))
  /\ LET key == trim(req.key)
         email == trim(req.email)
         c == Begin("requireAccess", "ra_link", req, allowTrial)
     IN IF key # <<>>
          THEN Finish(p, IF customerIdFromLicenseAccess(key) # Null
                           THEN Billed(c, out) ELSE c,
                      requireAccessKeyFlow(key, out))
        ELSE IF email # <<>>
          THEN /\ calls' = [calls EXCEPT ![p] = c]
               /\ last' = NoLast
        ELSE IF allowTrial
          THEN Finish(p, c, AllowTrial([NullTrial EXCEPT !.active = TRUE]))
        ELSE Finish(p, c, Deny(402, "UPGRADE_REQUIRED"))
  /\ UNCHANGED <<now, TRIAL_DAYS, stripeKeySet, trials, licByEmail, lastEnsure,
                 licVars, subVars, extVars>>

\* requireAccess(req, {allowTrial}) up to its first await
RequireAccessStart(p, req, allowTrial, out) ==
  /\ calls[p].pc = "idle"
  /\ out \in BillingOutcomes(customerIdFromLicenseAccess(trim(req.key)))
  /\ LET key == trim(req.key)
         email == trim(req.email)
         c == Begin("requireAccess", "ra_link", req, allowTrial)
     IN IF key # <<>>
          THEN Finish(p, IF customerIdFromLicenseAccess(key) # Null
                           THEN Billed(c, out) ELSE c,
                      requireAccessKeyFlow(key, out))
        ELSE IF email # <<>>
          THEN /\ calls' = [calls EXCEPT ![p] = c]
               /\ last' = NoLast
        ELSE Finish(p, c, Deny(402, "UPGRADE_REQUIRED"))
  /\ UNCHANGED <<now, TRIAL_DAYS, stripeKeySet, trials, licByEmail, lastEnsure,
                 licVars, subVars, extVars>>

\* requireAccess: const link = await findLicenseByEmail(email)
RA_FindLicense(p) ==
  /\ calls[p].pc = "ra_link"
  /\ LET c0 == calls[p]
         link == findLicenseByEmail(trim(c0.req.email), licByEmail)
         c == [c0 EXCEPT !.link = link, !.usedBlob = TRUE]
     IN IF link.found
          THEN /\ calls' = [calls EXCEPT ![p] = [c EXCEPT !.pc = "ra_linksub"]]
               /\ last' = NoLast
        ELSE IF c.allowTrial
          THEN /\ calls' = [calls EXCEPT ![p] = [c EXCEPT !.pc = "ra_trial"]]
               /\ last' = NoLast
        ELSE Finish(p, c, Deny(402, "UPGRADE_REQUIRED"))
  /\ UNCHANGED <<now, TRIAL_DAYS, stripeKeySet, trials, licByEmail, lastEnsure,
                 licVars, subVars, extVars>>

\* requireAccess: link && (await hasActiveSub(link.customerId))
RA_LinkSub(p, out) ==
  /\ calls[p].pc = "ra_linksub"
  /\ out \in BillingOutcomes(calls[p].link.customerId)
  /\ LET c == Billed(calls[p], out)
     IN IF out.threw THEN Finish(p, c, Threw)
        ELSE IF hasActiveSub(out.data) THEN Finish(p, c, AllowLicense(c.link.customerId))
        ELSE IF c.allowTrial
          THEN /\ calls' = [calls EXCEPT ![p] = [c EXCEPT !.pc = "ra_trial"]]
               /\ last' = NoLast
        ELSE Finish(p, c, Deny(402, "UPGRADE_REQUIRED"))
  /\ UNCHANGED <<now, TRIAL_DAYS, stripeKeySet, trials, licByEmail, lastEnsure,
                 licVars, subVars, extVars>>

\* requireAccess: const trial = await readTrialByEmail(email)
RA_Trial(p) ==
  /\ calls[p].pc = "ra_trial"
  /\ LET c == [calls[p] EXCEPT !.usedBlob = TRUE]
         trial == readTrialByEmail(trim(c.req.email), trials, now, TRIAL_DAYS)
     IN IF trial # NullTrial /\ trial.active
          THEN Finish(p, c, AllowTrial(trial))
          ELSE Finish(p, c, Deny(402, "UPGRADE_REQUIRED"))
  /\ UNCHANGED <<now, TRIAL_DAYS, stripeKeySet, trials, licByEmail, lastEnsure,
                 licVars, subVars, extVars>>

\* GET /api/trial/boot up to its first await
BootStart(p, req) ==
  /\ calls[p].pc = "idle"
  /\ LET email == trim(req.email)
         c == Begin("boot", "b_link", req, FALSE)
     IN IF email = <<>>
          THEN Finish(p, c, BootJson("email_required", NullTrial))
          ELSE /\ calls' = [calls EXCEPT ![p] = c]
               /\ last' = NoLast
  /\ UNCHANGED <<now, TRIAL_DAYS, stripeKeySet, trials, licByEmail, lastEnsure,
                 licVars, subVars, extVars>>

\* boot 2a: const link = await readLicenseByEmail(email)
Boot_FindLicense(p) ==
  /\ calls[p].pc = "b_link"
  /\ LET c0 == calls[p]
         link == findLicenseByEmail(trim(c0.req.email), licByEmail)
         c == [c0 EXCEPT !.link = link, !.usedBlob = TRUE]
     IN calls' = [calls EXCEPT ![p] =
                    [c EXCEPT !.pc = IF link.found THEN "b_linksub" ELSE "b_read"]]
  /\ last' = NoLast
  /\ UNCHANGED <<now, TRIAL_DAYS, stripeKeySet, trials, licByEmail, lastEnsure,
                 licVars, subVars, extVars>>

\* boot 2a: link && (await verifyStripeActive(link.customerId)); the handler's
\* catch answers 500 TRIAL_BOOT_ERROR
Boot_LinkSub(p, out) ==
  /\ calls[p].pc = "b_linksub"
  /\ out \in BillingOutcomes(calls[p].link.customerId)
  /\ LET c == Billed(calls[p], out)
     IN IF out.threw THEN Finish(p, c, BootError)
        ELSE IF hasActiveSub(out.data) THEN Finish(p, c, BootPro(c.link))
        ELSE /\ calls' = [calls EXCEPT ![p] = [c EXCEPT !.pc = "b_read"]]
             /\ last' = NoLast
  /\ UNCHANGED <<now, TRIAL_DAYS, stripeKeySet, trials, licByEmail, lastEnsure,
                 licVars, subVars, extVars>>

\* boot 2b: existing trial? else enter ensureTrialByEmail (2c)
Boot_ReadTrial(p) ==
  /\ calls[p].pc = "b_read"
  /\ LET c == [calls[p] EXCEPT !.usedBlob = TRUE]
         email == trim(c.req.email)
         existing == readTrialByEmail(email, trials, now, TRIAL_DAYS)
         status == computeCookieTrial(existing.startedAt, now, TRIAL_DAYS)
     IN IF existing.startedAt # <<>>
          THEN Finish(p, c, BootJson(IF status.active THEN "trial" ELSE "trial_expired",
                                     status))
          ELSE /\ calls' = [calls EXCEPT ![p] =
                              [c EXCEPT !.pc = "e_read",
                                        !.prev = lastEnsure[emailKey(email)]]]
               /\ last' = NoLast
  /\ UNCHANGED <<now, TRIAL_DAYS, stripeKeySet, trials, licByEmail, lastEnsure,
                 licVars, subVars, extVars>>

\* ensureTrialByEmail(email) is called
EnsureStart(p, email) ==
  /\ calls[p].pc = "idle"
  /\ email # <<>>
  /\ calls' = [calls EXCEPT ![p] =
                 [Begin("ensureTrial", "e_read", [NoReq EXCEPT !.email = email], FALSE)
                    EXCEPT !.prev = lastEnsure[emailKey(email)]]]
  /\ last' = NoLast
  /\ UNCHANGED <<now, TRIAL_DAYS, stripeKeySet, trials, licByEmail, lastEnsure,
                 licVars, subVars, extVars>>

\* mutation: a caller that finds the trial file written by another request
\* is answered as expired
EnsureAnswerLoserDenied(c, info) ==
  IF c.op = "boot"
    THEN (IF info.active /\ ~trials[emailKey(trim(c.req.email))].exists
            THEN BootJson("trial", info)
          ELSE BootJson("trial_expired", [NullTrial EXCEPT !.daysTotal = TRIAL_DAYS]))
    ELSE TrialReturn(info)

\* what the caller of ensureTrialByEmail answers with the TrialInfo it got
EnsureAnswer(c, info) ==
  IF c.op = "boot"
    THEN (IF info.active THEN BootJson("trial", info)
          ELSE BootJson("trial_expired", [NullTrial EXCEPT !.daysTotal = TRIAL_DAYS]))
    ELSE TrialReturn(info)

\* ensureTrialByEmail: const existing = await readTrialByEmail(email);
\* if (existing) return existing; else nowIso = new Date().toISOString()
Ensure_Read(p) ==
  /\ calls[p].pc = "e_read"
  /\ LET c == [calls[p] EXCEPT !.usedBlob = TRUE]
         email == trim(c.req.email)
         existing == readTrialByEmail(email, trials, now, TRIAL_DAYS)
     IN IF existing # NullTrial
          THEN /\ calls' = [calls EXCEPT ![p] = Idle]
               /\ last' = Done(c, EnsureAnswer(c, existing), FALSE, existing.startedAt)
               /\ lastEnsure' = [lastEnsure EXCEPT ![emailKey(email)] = existing.startedAt]
          ELSE /\ calls' = [calls EXCEPT ![p] =
                              [c EXCEPT !.pc = "e_put", !.nowIso = toISOString(now)]]
               /\ last' = NoLast
               /\ UNCHANGED lastEnsure
  /\ UNCHANGED <<now, TRIAL_DAYS, stripeKeySet, trials, licByEmail, licVars, subVars, extVars>>

\* ensureTrialByEmail: await put(`trials/${ek}.json`, {startedAt: nowIso}) and
\* the computed view it returns
Ensure_Put(p) ==
  /\ calls[p].pc = "e_put"
  /\ LET c == calls[p]
         ek == emailKey(trim(c.req.email))
         expiresAt == DateOf(c.nowIso) + TRIAL_DAYS * Day
         info == [startedAt |-> c.nowIso, expiresAt |-> toISOString(expiresAt),
                  daysUsed |-> 0, daysTotal |-> TRIAL_DAYS, active |-> TRUE]
     IN /\ trials' = [trials EXCEPT ![ek] = [exists |-> TRUE, startedAt |-> c.nowIso]]
        /\ calls' = [q \in Procs |->
                       IF q = p THEN Idle
                       ELSE IF calls[q].pc \in {"e_read", "e_put"}
                               /\ emailKey(trim(calls[q].req.email)) = ek
                         THEN [calls[q] EXCEPT !.prev = <<>>]
                       ELSE calls[q]]
        /\ last' = [Done(c, EnsureAnswer(c, info), TRUE, c.nowIso)
                      EXCEPT !.replaced = trials[ek].exists
                                            /\ trials[ek].startedAt # c.nowIso]
        /\ lastEnsure' = [lastEnsure EXCEPT ![ek] = c.nowIso]
  /\ UNCHANGED <<now, TRIAL_DAYS, stripeKeySet, licByEmail, licVars, subVars, extVars>>

----------------------------------------------------------------------------
(* Specification of the email trial: boot, ensureTrialByEmail and            *)
(* requireAccess requests of two clients interleave while time passes        *)

\* licenses_by_email records left by earlier checkout webhooks
LicBlobSamples == {NoLicBlob, [exists |-> TRUE, licenseKey |-> KeyA]}

\* subscriptions of cus_A, the customer of that checkout, while the trial
\* machine runs
SubsSamples == {<<"active">>, <<"canceled">>}

Init ==
  /\ LicQuiet
  /\ now = 0
  /\ \E env \in EnvTrialDays : TRIAL_DAYS = readTrialDays(env)
  /\ stripeKeySet = TRUE
  /\ licByEmail \in [EmailKeys -> LicBlobSamples]
  /\ subs \in IF \E ek \in EmailKeys : licByEmail[ek].exists THEN SubsSamples ELSE {<<>>}
  /\ trials = [ek \in EmailKeys |-> NoTrialBlob]
  /\ calls = [p \in Procs |-> Idle]
  /\ last = NoLast
  /\ lastEnsure = [ek \in EmailKeys |-> <<>>]
  /\ ExtQuiet

EmailA == <<"a","@","b">>
\* boot requests: without ?email=, and with the address in either spelling
EmailReqs == {[NoReq EXCEPT !.email = e] : e \in Emails}
TrialAccessReqs == {[NoReq EXCEPT !.email = EmailA]}

Next ==
  \/ \E t \in ClockInstants(TRIAL_DAYS) : Tick(t)
  \/ \E p \in Procs, req \in EmailReqs : BootStart(p, req)
  \/ \E p \in Procs : Boot_FindLicense(p)
  \/ \E p \in Procs, out \in BillingOutcomes(CusA) : Boot_LinkSub(p, out)
  \/ \E p \in Procs : Boot_ReadTrial(p)
  \/ \E p \in Procs : EnsureStart(p, EmailA)
  \/ \E p \in Procs : Ensure_Read(p)
  \/ \E p \in Procs : Ensure_Put(p)
  \/ \E p \in Procs, req \in TrialAccessReqs, allowTrial \in BOOLEAN :
       \E out \in BillingOutcomes(customerIdFromLicenseAccess(trim(req.key))) :
         RequireAccessStart(p, req, allowTrial, out)
  \/ \E p \in Procs : RA_FindLicense(p)
  \/ \E p \in Procs, out \in BillingOutcomes(CusA) : RA_LinkSub(p, out)
  \/ \E p \in Procs : RA_Trial(p)

Spec == Init /\ [][Next]_vars

----------------------------------------------------------------------------
(* Specification of the gates: one client sends requests of every shape to   *)
(* requirePro and requireAccess, one after the other, against every          *)
(* subscription listing of the customer                                      *)

\* statuses the customer's subscriptions are sampled from
GateStatuses == {"active", "past_due", "unpaid", "incomplete", "canceled"}

RECURSIVE Listings(_)
Listings(n) ==
  IF n = 0 THEN {<<>>}
  ELSE LET shorter == Listings(n - 1)
       IN shorter \cup {<<st>> \o l : st \in GateStatuses, l \in shorter}

\* ?key= values: absent, blank, an issued key with padding, a key without a
\* customer id
LegacyKey == <<"L","I","C">>
PaddedKeyA == <<" ">> \o KeyA \o <<" ">>

GateReqs ==
  {[NoReq EXCEPT !.key = k] : k \in {<<>>, <<" ">>, PaddedKeyA, LegacyKey}}
    \cup {[NoReq EXCEPT !.hkey = KeyA],
          [NoReq EXCEPT !.email = EmailA],
          [NoReq EXCEPT !.hkey = KeyA, !.email = EmailA],
          [NoReq EXCEPT !.key = PaddedKeyA, !.email = EmailA]}

InitGate ==
  /\ LicQuiet
  /\ now = 0
  /\ \E env \in EnvTrialDays : TRIAL_DAYS = readTrialDays(env)
  /\ stripeKeySet \in BOOLEAN
  /\ subs \in IF stripeKeySet THEN Listings(MaxSubs) ELSE {<<"active">>}
  /\ trials = [ek \in EmailKeys |-> NoTrialBlob]
  /\ licByEmail \in [EmailKeys -> LicBlobSamples]
  /\ calls = [p \in Procs |-> Idle]
  /\ last = NoLast
  /\ lastEnsure = [ek \in EmailKeys |-> <<>>]
  /\ ExtQuiet

NextGate ==
  \/ \E req \in GateReqs :
       \E out \in BillingOutcomes(customerIdFromLicense(readLicenseFrom(req))) :
         RequirePro("p1", req, out)
  \/ \E req \in GateReqs, allowTrial \in BOOLEAN :
       \E out \in BillingOutcomes(customerIdFromLicenseAccess(trim(req.key))) :
         RequireAccessStart("p1", req, allowTrial, out)
  \/ RA_FindLicense("p1")
  \/ \E out \in BillingOutcomes(CusA) : RA_LinkSub("p1", out)
  \/ RA_Trial("p1")

SpecGate == InitGate /\ [][NextGate]_vars

----------------------------------------------------------------------------
(* License records: the Stripe webhook and the admin handlers.  All of them  *)
(* act on customer cus_A, whose Stripe email is a@b.                         *)

\* the 4 random bytes drawn when a handler issues a key (the first draw gives
\* KeyA again)
KeyBytesA == <<202, 10, 202, 10>>
HookBytes == { KeyBytesA, <<10, 10, 10, 10>> }

WebhookTypes == {"checkout.session.completed", "customer.subscription.created",
                 "customer.subscription.updated", "customer.subscription.deleted"}
AdminOps == {"admin.issue", "admin.revoke"}

\* licenses_history/${customerId}-${Date.now()}.json
HistoryPath(t) == t

\* the record saveLicenseRecord serialises
LicenseRecord(c) == [exists |-> TRUE, licenseKey |-> c.licenseKey, source |-> c.source]

\* the step a handler takes after the step pc
StepAfter(c, pc) ==
  IF pc = "meta"
    THEN (IF c.op = "admin.issue" THEN "subcreate"
          ELSE IF c.op = "get-license" THEN "idle"
          ELSE "latest")
  ELSE IF pc = "retrieve"
    THEN (IF c.op = "customer.subscription.created"
            THEN (IF c.licenseKey = Null THEN "meta" ELSE "latest")
          ELSE IF c.op = "admin.revoke" THEN "latest"
          ELSE "history")
  ELSE IF pc = "subcreate" THEN "latest"
  ELSE IF pc = "latest"
    THEN (IF c.op \in AdminOps THEN "history"
          ELSE IF c.email # <<>> THEN "byemail" ELSE "history")
  ELSE IF pc = "byemail"
    THEN (IF c.op \in AdminOps THEN "idle" ELSE "history")
  ELSE IF pc = "history"
    THEN (IF c.op \in AdminOps /\ c.email # <<>> THEN "byemail" ELSE "idle")
  ELSE "idle"

\* the handler goes on to its next step, or returns its response
Advance(h, c) ==
  /\ hooks' = [hooks EXCEPT ![h] =
                 IF StepAfter(c, c.pc) = "idle" THEN HookIdle
                 ELSE [c EXCEPT !.pc = StepAfter(c, c.pc)]]
  /\ revoked' = IF c.op = "admin.revoke" /\ StepAfter(c, c.pc) = "idle"
                  THEN [done |-> TRUE, listed |-> c.listed, targets |-> c.chosen]
                  ELSE revoked

\* POST /api/stripe/webhook, checkout.session.completed, up to
\* await stripe.customers.update: the price is on the allow-list, the session
\* names cus_A; sessionEmail is session.customer_details.email (<<>>: none)
Webhook_Checkout(h, sessionEmail, bytes) ==
  /\ hooks[h].pc = "idle"
  /\ stripeKeySet
  /\ histPuts < MaxHistPuts
  /\ hooks' = [hooks EXCEPT ![h] =
                 [HookIdle EXCEPT !.op = "checkout.session.completed",
                                  !.pc = "meta",
                                  !.source = "checkout.session.completed",
                                  !.email = sessionEmail,
                                  !.licenseKey = issueLicenseForCustomerId(CusA, bytes)]]
  /\ UNCHANGED <<custMeta, licLatest, licHistory, histPuts, licVars, subVars, gateRest, rlVars, revVars, edgeVars>>
  /\ last' = NoLast

\* await stripe.customers.update(customerId, {metadata: {license_key}}); a
\* throw ends the handler in its catch (webhook) or propagates (admin); the
\* checkout handler then takes the customer's email when the session has none
Hook_UpdateMeta(h, threw) ==
  /\ hooks[h].pc = "meta"
  /\ IF threw
       THEN /\ hooks' = [hooks EXCEPT ![h] = HookIdle]
            /\ UNCHANGED <<custMeta, revoked>>
       ELSE /\ custMeta' = hooks[h].licenseKey
            /\ Advance(h, [hooks[h] EXCEPT !.email =
                             IF hooks[h].op = "checkout.session.completed" /\ @ = <<>>
                               THEN EmailA ELSE @])
  /\ UNCHANGED <<licLatest, licHistory, histPuts, licVars, subVars, gateRest, rlVars, edgeVars>>
  /\ last' = NoLast

\* saveLicenseRecord: await put(`licenses/${customerId}.json`, record)
Save_Latest(h) ==
  /\ hooks[h].pc = "latest"
  /\ licLatest' = LicenseRecord(hooks[h])
  /\ Advance(h, hooks[h])
  /\ UNCHANGED <<custMeta, licHistory, histPuts, licVars, subVars, gateRest, rlVars, edgeVars>>
  /\ last' = NoLast

\* saveLicenseRecord: await put(`licenses_by_email/${ek}.json`, record)
Save_ByEmail(h) ==
  /\ hooks[h].pc = "byemail"
  /\ licByEmail' = [licByEmail EXCEPT ![emailKey(hooks[h].email)] =
                      [exists |-> TRUE, licenseKey |-> hooks[h].licenseKey]]
  /\ last' = NoLast
  /\ Advance(h, hooks[h])
  /\ UNCHANGED <<custMeta, licLatest, licHistory, histPuts, licVars, subVars,
                 now, TRIAL_DAYS, stripeKeySet, trials, calls, lastEnsure, rlVars, edgeVars>>

\* saveLicenseRecord: await put(`licenses_history/${customerId}-${Date.now()}.json`,
\* record); a put to a path that exists replaces the blob
Save_History(h) ==
  /\ hooks[h].pc = "history"
  /\ licHistory' = {e \in licHistory : e.path # HistoryPath(now)}
                     \cup {[path |-> HistoryPath(now), record |-> LicenseRecord(hooks[h])]}
  /\ histPuts' = histPuts + 1
  /\ Advance(h, hooks[h])
  /\ UNCHANGED <<custMeta, licLatest, licVars, subVars, gateRest, rlVars, edgeVars>>
  /\ last' = NoLast

SubscriptionEvents == WebhookTypes \ {"checkout.session.completed"}

\* the statuses whose subscriptions the revoke handler cancels
RevokeStatuses == {"active", "trialing", "past_due", "unpaid", "incomplete"}

\* Stripe's id of the subscription listed at position i: subscriptions are
\* listed newest first, the id is the rank of creation
SubId(i) == Len(subs) - i + 1
SubAt(id) == Len(subs) - id + 1

\* POST /api/stripe/webhook, customer.subscription.created / updated /
\* deleted for a subscription of cus_A on the allow-list, up to
\* await stripe.customers.retrieve
Webhook_Subscription(h, type) ==
  /\ hooks[h].pc = "idle"
  /\ stripeKeySet
  /\ histPuts < MaxHistPuts
  /\ type \in SubscriptionEvents
  /\ subs # <<>>
  /\ hooks' = [hooks EXCEPT ![h] =
                 [HookIdle EXCEPT !.op = type, !.pc = "retrieve", !.source = type]]
  /\ UNCHANGED <<custMeta, licLatest, licHistory, histPuts, licVars, subVars, gateRest,
                 rlVars, revVars, edgeVars>>
  /\ last' = NoLast

\* const customer = await stripe.customers.retrieve(customerId) inside
\* try/catch: email and metadata.license_key, both null when it throws;
\* subscription.created then issues a key when there is none
Hook_Retrieve(h, threw, bytes) ==
  /\ hooks[h].pc = "retrieve"
  /\ LET c == [hooks[h] EXCEPT !.email = IF threw THEN <<>> ELSE EmailA,
                               !.licenseKey = IF threw THEN Null ELSE custMeta]
         nxt == StepAfter(c, "retrieve")
     IN hooks' = [hooks EXCEPT ![h] =
                    [c EXCEPT !.pc = nxt,
                              !.licenseKey = IF nxt = "meta"
                                               THEN issueLicenseForCustomerId(CusA, bytes)
                                               ELSE @]]
  /\ UNCHANGED <<custMeta, licLatest, licHistory, histPuts, licVars, subVars, gateRest,
                 rlVars, revVars, edgeVars>>
  /\ last' = NoLast

\* admin gifts/issue-stripe handle, for the address of cus_A, up to
\* await stripe.customers.update
Admin_Issue(h, bytes) ==
  /\ hooks[h].pc = "idle"
  /\ stripeKeySet
  /\ histPuts < MaxHistPuts
  /\ Len(subs) < MaxSubs
  /\ \A g \in HookProcs : hooks[g].op # "admin.issue"
  /\ hooks' = [hooks EXCEPT ![h] =
                 [HookIdle EXCEPT !.op = "admin.issue", !.pc = "meta",
                                  !.source = "admin.issue", !.email = EmailA,
                                  !.licenseKey = issueLicenseForCustomerId(CusA, bytes)]]
  /\ UNCHANGED <<custMeta, licLatest, licHistory, histPuts, licVars, subVars, gateRest,
                 rlVars, revVars, edgeVars>>
  /\ last' = NoLast

\* admin issue: await stripe.subscriptions.create({trial_end, ...}); a throw
\* leaves the handler
Hook_SubCreate(h, threw) ==
  /\ hooks[h].pc = "subcreate"
  /\ IF threw
       THEN /\ hooks' = [hooks EXCEPT ![h] = HookIdle]
            /\ UNCHANGED <<subVars, revoked>>
       ELSE /\ Len(subs) < MaxSubs
            /\ subs' = <<"trialing">> \o subs
            /\ subsOut' = NoSubsOut
            /\ Advance(h, hooks[h])
  /\ UNCHANGED <<custMeta, licLatest, licHistory, histPuts, licVars, gateRest, rlVars, edgeVars>>
  /\ last' = NoLast

\* admin license revoke handle, up to the cancel loop: the listing and the
\* subscriptions it selects
Admin_Revoke(h) ==
  /\ hooks[h].pc = "idle"
  /\ stripeKeySet
  /\ histPuts < MaxHistPuts
  /\ LET targets == {SubId(i) : i \in {j \in 1..Len(subs) : subs[j] \in RevokeStatuses}}
     IN hooks' = [hooks EXCEPT ![h] =
                    [HookIdle EXCEPT !.op = "admin.revoke", !.source = "admin.revoke",
                                     !.targets = targets, !.chosen = targets,
                                     !.listed = Len(subs),
                                     !.pc = IF targets = {} THEN "retrieve" ELSE "cancel"]]
  /\ UNCHANGED <<custMeta, licLatest, licHistory, histPuts, licVars, subVars, gateRest,
                 rlVars, revVars, edgeVars>>
  /\ last' = NoLast

\* for (const s of targets) await stripe.subscriptions.cancel(s.id), in the
\* order of the listing; Stripe refuses to cancel a subscription that is
\* canceled already, and a throw leaves the handler
Revoke_Cancel(h, threw) ==
  /\ hooks[h].pc = "cancel"
  /\ LET id == Max(hooks[h].targets)
         rest == hooks[h].targets \ {id}
     IN IF threw \/ subs[SubAt(id)] \in {"canceled", "incomplete_expired"}
          THEN /\ hooks' = [hooks EXCEPT ![h] = HookIdle]
               /\ UNCHANGED subVars
          ELSE /\ subs' = [subs EXCEPT ![SubAt(id)] = "canceled"]
               /\ subsOut' = NoSubsOut
               /\ hooks' = [hooks EXCEPT ![h] =
                              [@ EXCEPT !.targets = rest,
                                        !.pc = IF rest = {} THEN "retrieve" ELSE "cancel"]]
  /\ UNCHANGED <<custMeta, licLatest, licHistory, histPuts, licVars, gateRest, rlVars, revVars, edgeVars>>
  /\ last' = NoLast

\* GET get-license-from-session for a session of cus_A, up to
\* await stripe.customers.update: an existing metadata.license_key that
\* includes "cus_" is returned, else a new key is issued
GetLicense(h, bytes) ==
  /\ hooks[h].pc = "idle"
  /\ stripeKeySet
  /\ hooks' = [hooks EXCEPT ![h] =
                 IF custMeta # Null /\ includes(custMeta, CusPrefix)
                   THEN HookIdle
                   ELSE [HookIdle EXCEPT !.op = "get-license", !.pc = "meta",
                                         !.source = "get-license",
                                         !.licenseKey =
                                            issueLicenseForCustomerId(CusA, bytes)]]
  /\ UNCHANGED <<custMeta, licLatest, licHistory, histPuts, licVars, subVars, gateRest,
                 rlVars, revVars, edgeVars>>
  /\ last' = NoLast

----------------------------------------------------------------------------
(* Specification of the license records: two deliveries or admin requests   *)
(* about cus_A run at a time while the clock advances                        *)

MaxHookClock == 1  \* the clock runs from 0 to this many seconds

HookTick ==
  /\ now < MaxHookClock
  /\ now' = now + 1
  /\ last' = NoLast
  /\ UNCHANGED <<TRIAL_DAYS, stripeKeySet, trials, licByEmail, calls, lastEnsure,
                 licVars, subVars, extVars>>

InitHooks ==
  /\ LicQuiet
  /\ GateQuiet
  /\ subs = <<"active">>
  /\ ExtQuiet

NextHooks ==
  \/ HookTick
  \/ \E h \in HookProcs :
       \/ \E bytes \in HookBytes : Webhook_Checkout(h, EmailA, bytes)
       \/ \E type \in SubscriptionEvents : Webhook_Subscription(h, type)
       \/ \E threw \in BOOLEAN, bytes \in HookBytes : Hook_Retrieve(h, threw, bytes)
       \/ \E threw \in BOOLEAN : Hook_UpdateMeta(h, threw)
       \/ \E bytes \in HookBytes : Admin_Issue(h, bytes)
       \/ \E threw \in BOOLEAN : Hook_SubCreate(h, threw)
       \/ Admin_Revoke(h)
       \/ \E threw \in BOOLEAN : Revoke_Cancel(h, threw)
       \/ Save_Latest(h)
       \/ Save_ByEmail(h)
       \/ Save_History(h)

SpecHooks == InitHooks /\ [][NextHooks]_vars

----------------------------------------------------------------------------
(* Stripe: how the status of a subscription moves *)

StripeMoves ==
  { <<"incomplete", "active">>, <<"incomplete", "incomplete_expired">>,
    <<"trialing", "active">>, <<"trialing", "past_due">>,
    <<"trialing", "paused">>, <<"trialing", "canceled">>,
    <<"active", "past_due">>, <<"active", "canceled">>,
    <<"past_due", "active">>, <<"past_due", "unpaid">>, <<"past_due", "canceled">>,
    <<"unpaid", "active">>, <<"unpaid", "canceled">>,
    <<"paused", "active">>, <<"paused", "canceled">> }

\* Stripe moves a subscription of cus_A to another status (payment failed or
\* recovered, trial ended, subscription resumed or cancelled)
StripeTransition(i, st) ==
  /\ i \in 1..Len(subs)
  /\ <<subs[i], st>> \in StripeMoves
  /\ subs' = [subs EXCEPT ![i] = st]
  /\ subsOut' = NoSubsOut
  /\ last' = NoLast
  /\ UNCHANGED <<licVars, now, TRIAL_DAYS, stripeKeySet, trials, licByEmail, calls,
                 lastEnsure, extVars>>

----------------------------------------------------------------------------
(* Specification of revocation: Stripe creates and moves the subscriptions  *)
(* of cus_A, the admin revokes, and a client presents a key of cus_A to      *)
(* requirePro                                                                *)

\* the statuses Stripe creates a subscription in
CreatedStatuses == {"incomplete", "trialing", "active"}

KeyAReq == [NoReq EXCEPT !.key = KeyA]

InitRevoke ==
  /\ LicQuiet
  /\ GateQuiet
  /\ subs = <<>>
  /\ ExtQuiet

NextRevoke ==
  \/ \E st \in CreatedStatuses : StripeCreateSub(st)
  \/ \E i \in 1..MaxSubs, st \in Statuses : StripeTransition(i, st)
  \/ Admin_Revoke("h1")
  \/ \E threw \in BOOLEAN : Revoke_Cancel("h1", threw)
  \/ \E threw \in BOOLEAN : Hook_Retrieve("h1", threw, KeyBytesA)
  \/ Save_Latest("h1")
  \/ Save_History("h1")
  \/ Save_ByEmail("h1")
  \/ \E out \in BillingOutcomes(CusA) : RequirePro("p1", KeyAReq, out)

SpecRevoke == InitRevoke /\ [][NextRevoke]_vars

----------------------------------------------------------------------------
(* Specification of re-issuing: the checkout webhook, the admin issue       *)
(* handler and get-license-from-session give cus_A license keys, and a      *)
(* client presents keys of cus_A to requirePro                              *)

\* a second key of cus_A, from another draw of random bytes
KeyB == issueLicenseForCustomerId(CusA, <<10, 10, 10, 10>>)

\* keys of cus_A as a client may present them: either issued key, in the
\* query or the header, padded, or the bare customer id
ReissueReqs == {KeyAReq, [NoReq EXCEPT !.hkey = KeyB], [NoReq EXCEPT !.key = PaddedKeyA],
                [NoReq EXCEPT !.key = CusA]}

ReissueListings == {<<>>, <<"active">>, <<"canceled">>, <<"past_due", "active">>}

InitReissue ==
  /\ LicQuiet
  /\ GateQuiet
  /\ subs \in ReissueListings
  /\ ExtQuiet

NextReissue ==
  \/ \E bytes \in HookBytes : Webhook_Checkout("h1", EmailA, bytes)
  \/ \E bytes \in HookBytes : Admin_Issue("h1", bytes)
  \/ \E bytes \in HookBytes : GetLicense("h1", bytes)
  \/ \E threw \in BOOLEAN : Hook_UpdateMeta("h1", threw)
  \/ \E threw \in BOOLEAN : Hook_SubCreate("h1", threw)
  \/ Save_Latest("h1")
  \/ Save_ByEmail("h1")
  \/ Save_History("h1")
  \/ \E req \in ReissueReqs : \E out \in BillingOutcomes(CusA) : RequirePro("p1", req, out)

SpecReissue == InitReissue /\ [][NextReissue]_vars

----------------------------------------------------------------------------
(* The reports list route: requirePro, then a token bucket per client       *)
(* address.  Tokens are counted in halves (tokens2 = 2 * tokens): the       *)
(* bucket refills MAX_PER_MIN / 60000 token per millisecond, half a token   *)
(* per second.                                                              *)

MAX_PER_MIN == 30
MinuteMs == 60000
WindowSecs == 60

\* elapsed * refillPerMs, in half tokens, for elapsed whole seconds
Refill2(elapsedSecs) == (elapsedSecs * 1000 * 2 * MAX_PER_MIN) \div MinuteMs

\* Math.ceil(a / b) for a >= 0, b > 0
CeilDiv(a, b) == (a + b - 1) \div b

\* rateLimit(ip) at instant t: the bucket it leaves and what it returns
rateLimit(b, t) ==
  LET b1 == IF ~b.exists
              THEN [exists |-> TRUE, tokens2 |-> 2 * MAX_PER_MIN, lastRefill |-> t]
              ELSE [exists |-> TRUE,
                    tokens2 |-> Min({2 * MAX_PER_MIN,
                                     b.tokens2 + Refill2(Max({0, t - b.lastRefill}))}),
                    lastRefill |-> t]
      deficit2 == 2 - b1.tokens2
      ms == CeilDiv(deficit2 * MinuteMs, 2 * MAX_PER_MIN)
  IN IF b1.tokens2 >= 2
       THEN [bucket |-> [b1 EXCEPT !.tokens2 = @ - 2], ok |-> TRUE, retryAfter |-> 0]
       ELSE [bucket |-> b1, ok |-> FALSE,
             retryAfter |-> Max({1, CeilDiv(ms, 1000)})]

\* GET /api/reports/list of the one client: paywall, rate limit, listing
ListReports(req, out) ==
  /\ rlCount < MAX_PER_MIN + 1
  /\ out \in BillingOutcomes(customerIdFromLicense(readLicenseFrom(req)))
  /\ LET gate == requirePro(req, out)
         rl == rateLimit(BUCKETS, now)
     IN IF ~gate.ok
          THEN /\ rlResp' = [status |-> gate.status, error |-> "PRO_REQUIRED",
                             retryAfter |-> 0]
               /\ UNCHANGED <<BUCKETS, rlCount>>
          ELSE /\ BUCKETS' = rl.bucket
               /\ rlCount' = rlCount + 1
               /\ rlResp' = IF rl.ok THEN [status |-> 200, error |-> "", retryAfter |-> 0]
                            ELSE [status |-> 429, error |-> "RATE_LIMITED",
                                  retryAfter |-> rl.retryAfter]
  /\ last' = NoLast
  /\ UNCHANGED <<now, TRIAL_DAYS, stripeKeySet, trials, licByEmail, calls, lastEnsure,
                 licVars, subVars, hookVars, revVars, edgeVars>>

\* arrival instants within the window that begins with the first request
WindowInstants == {0, 1, 2, 3, WindowSecs - 1}

\* time passes within the window
WindowTick(t) ==
  /\ t \in WindowInstants
  /\ t > now
  /\ now' = t
  /\ rlResp' = NoListResp
  /\ last' = NoLast
  /\ UNCHANGED <<TRIAL_DAYS, stripeKeySet, trials, licByEmail, calls, lastEnsure,
                 licVars, subVars, hookVars, revVars, edgeVars, BUCKETS, rlCount>>

InitRate ==
  /\ LicQuiet
  /\ GateQuiet
  /\ subs = <<"active">>
  /\ ExtQuiet

NextRate ==
  \/ \E req \in {NoReq, [NoReq EXCEPT !.hkey = KeyA]} :
       \E out \in BillingOutcomes(customerIdFromLicense(readLicenseFrom(req))) :
         ListReports(req, out)
  \/ \E t \in WindowInstants : WindowTick(t)

SpecRate == InitRate /\ [][NextRate]_vars

----------------------------------------------------------------------------
(* Specification of the life of one address: the client boots, comes back   *)
(* days later, buys (Stripe creates the subscription and sends              *)
(* checkout.session.completed), and boots again                             *)

LaterDays == 8     \* the client comes back this many days after the first boot

LifecycleInstants == {0, 1, LaterDays * Day, LaterDays * Day + 1}

\* time passes between requests
ComeBackLater(t) ==
  /\ t \in LifecycleInstants
  /\ t > now
  /\ \/ t - now <= MaxInFlightSecs
     \/ \A p \in Procs : calls[p].pc = "idle"
  /\ now' = t
  /\ last' = NoLast
  /\ UNCHANGED <<TRIAL_DAYS, stripeKeySet, trials, licByEmail, calls, lastEnsure,
                 licVars, subVars, extVars>>

InitLifecycle ==
  /\ LicQuiet
  /\ now = 0
  /\ TRIAL_DAYS = readTrialDays(<<>>)
  /\ stripeKeySet = TRUE
  /\ subs = <<>>
  /\ trials = [ek \in EmailKeys |-> NoTrialBlob]
  /\ licByEmail = [ek \in EmailKeys |-> NoLicBlob]
  /\ calls = [p \in Procs |-> Idle]
  /\ last = NoLast
  /\ lastEnsure = [ek \in EmailKeys |-> <<>>]
  /\ ExtQuiet

NextLifecycle ==
  \/ \E t \in LifecycleInstants : ComeBackLater(t)
  \/ BootStart("p1", [NoReq EXCEPT !.email = EmailA])
  \/ Boot_FindLicense("p1")
  \/ \E out \in BillingOutcomes(CusA) : Boot_LinkSub("p1", out)
  \/ Boot_ReadTrial("p1")
  \/ Ensure_Read("p1")
  \/ Ensure_Put("p1")
  \/ StripeCreateSub("active")
  \/ \E i \in 1..MaxSubs, st \in Statuses : StripeTransition(i, st)
  \/ subs # <<>> /\ \E email \in {<<>>, EmailA} :
                      Webhook_Checkout("h1", email, KeyBytesA)
  \/ \E threw \in BOOLEAN : Hook_UpdateMeta("h1", threw)
  \/ Save_Latest("h1")
  \/ Save_ByEmail("h1")
  \/ Save_History("h1")

SpecLifecycle == InitLifecycle /\ [][NextLifecycle]_vars

----------------------------------------------------------------------------
(* Claims about the pure functions *)

ActiveStatuses == {"active", "trialing"}
AnyActive(data) == \E i \in 1..Len(data) : data[i] \in ActiveStatuses

\* C2: hasActiveSubscription and hasActiveSub return true if and only if at
\* least one listed subscription has status active or trialing, in any order
\* of the listing.
C2_ActiveIffAnyActive ==
  subsOut.called =>
    /\ subsOut.paywall = AnyActive(subs)
    /\ subsOut.access = AnyActive(subs)

NoDash(s) == \A i \in 1..Len(s) : s[i] # "-"

\* C4: for every customer id that begins with cus_ and contains no '-',
\* customerIdFromLicense(issueLicenseForCustomerId(cid)) = cid, whatever the
\* random suffix.
C4_RoundTrip ==
  (licOut.called /\ licCid # Null /\ startsWith(licCid, CusPrefix) /\ NoDash(licCid))
    => licOut.paywall = licCid

C4_Witness ==
  /\ licOut.called
  /\ licCid = CusPrefix \o <<"A">>
  /\ licKey = LicPro \o licCid \o <<"-","C","A","0","A","C","A","0","A">>
  /\ licOut.paywall = licCid

CusSegmentCount(key) ==
  Cardinality({i \in 1..Len(split(trim(key))) : IsCusSegment(split(trim(key))[i])})

\* C5: for every presented key that, split on '-', has zero or at least two
\* segments beginning with cus_, customerIdFromLicense (both copies) returns
\* null.
C5_MalformedIsNull ==
  (licOut.called /\ CusSegmentCount(licKey) # 1)
    => (licOut.paywall = Null /\ licOut.access = Null)

----------------------------------------------------------------------------
(* Claims about the gates *)

\* the license key a gate reads from the request: requirePro through
\* readLicenseFrom (query parameter, then header), requireAccess from the
\* query parameter key
KeyReadBy(l) == IF l.op = "requirePro" THEN readLicenseFrom(l.req) ELSE trim(l.req.key)

\* C1: when the subscription listing throws, or the Stripe secret is missing,
\* while requirePro verifies a key that embeds a customer id, requirePro
\* returns ok=false, status 401, error PAYWALL_ERROR; it neither returns ok=true
\* nor throws.
C1_FailClosed ==
  (/\ last.op = "requirePro"
   /\ customerIdFromLicense(readLicenseFrom(last.req)) # Null
   /\ last.billingThrew)
    => /\ last.ret.kind = "verdict"
       /\ ~last.ret.ok
       /\ last.ret.status = 401
       /\ last.ret.error = "PAYWALL_ERROR"

C1_Witness ==
  /\ last.op = "requirePro"
  /\ last.billingThrew
  /\ stripeKeySet
  /\ subs = <<"active">>
  /\ last.req.hkey = KeyA
  /\ last.ret = PaywallError

InactiveStatuses == {"canceled", "past_due", "unpaid", "incomplete"}

Anonymous(req) ==
  /\ trim(req.key) = <<>>
  /\ trim(req.hkey) = <<>>
  /\ trim(req.email) = <<>>

\* C10: every requireAccess call on a request with no license key and no
\* email returns the 402 UPGRADE_REQUIRED denial, with allowTrial true or
\* false, without a billing call, without a blob call and without changing
\* any trial file.
C10_AnonymousDenied ==
  [][(last'.op = "requireAccess" /\ Anonymous(last'.req))
       => /\ last'.ret = Deny(402, "UPGRADE_REQUIRED")
          /\ ~last'.usedBilling
          /\ ~last'.usedBlob
          /\ ~last'.wrote
          /\ trials' = trials]_vars

C10_Witness ==
  /\ last.op = "requireAccess"
  /\ last.req.key = <<" ">>
  /\ Anonymous(last.req)
  /\ last.allowTrial
  /\ last.ret = Deny(402, "UPGRADE_REQUIRED")
  /\ \A ek \in EmailKeys : ~trials[ek].exists

----------------------------------------------------------------------------
(* Claims about the email trial *)

C8_ExpiryBoundary ==
  LET t == last.ret.trial
      expiresAt == DateOf(t.startedAt) + TRIAL_DAYS * Day
  IN (t.startedAt # <<>> /\ ~last.wrote)
       => /\ now = expiresAt - 1 => t.active
          /\ now = expiresAt => ~t.active
          /\ t.active <=> now < expiresAt

C8_Witness ==
  /\ last.op = "boot"
  /\ last.ret.trial.startedAt = toISOString(1)
  /\ now = 1 + TRIAL_DAYS * Day
  /\ ~last.ret.trial.active
  /\ last.ret.mode = "trial_expired"

\* the seconds before the expiry instant are reached as well
C8_LastSecond ==
  /\ last.op = "requireAccess"
  /\ last.ret.trial.startedAt = toISOString(1)
  /\ now = TRIAL_DAYS * Day
  /\ last.ret.trial.active
  /\ last.ret.via = "trial"

\* what a call that began after the trial had expired may not do
NoWayOutOfExpired ==
  /\ ~last.wrote
  /\ last.ret.via # "trial"
  /\ last.ret.mode # "trial"
  /\ ~last.ret.trial.active

C11_FirstContactGrace ==
  (/\ last.op = "requireAccess"
   /\ last.allowTrial
   /\ trim(last.req.key) = <<>>
   /\ trim(last.req.email) # <<>>
   /\ ~last.had
   /\ ~licByEmail[emailKey(last.req.email)].exists)
    => /\ last.ret.ok
       /\ last.ret.via = "trial"
       /\ trials[emailKey(last.req.email)].exists

----------------------------------------------------------------------------
(* Claims about the life of one address *)

\* a boot request of client p1 is answered in this step
BootAnswered == calls["p1"].op = "boot" /\ calls'["p1"].pc = "idle"

NoPurchase == ~licByEmail'[emailKey(EmailA)].exists

\* the first boot of an address without purchase starts the trial
FirstBootStartsTrial ==
  (BootAnswered /\ ~last'.had /\ NoPurchase)
    => /\ last'.ret.mode = "trial"
       /\ last'.ret.trial.daysTotal = DefaultTrialDays
       /\ last'.ret.trial.daysUsed = 0

\* a boot LaterDays after the trial began, without purchase, finds it expired
LaterBootExpired ==
  (/\ BootAnswered /\ last'.had /\ NoPurchase
   /\ now' >= DateOf(trials'[emailKey(EmailA)].startedAt) + LaterDays * Day)
    => last'.ret.mode = "trial_expired"

\* a boot that found the by-email license record and is told the customer's
\* subscriptions answers pro when one of them is active
BootAfterPurchasePro ==
  (/\ calls["p1"].pc = "b_linksub" /\ calls'["p1"].pc # "b_linksub"
   /\ AnyActive(subs)
   /\ ~(BootAnswered /\ last'.billingThrew))
    => BootAnswered /\ last'.ret.mode = "pro"

\* the same, for a customer whose newest subscription is the active one
BootAfterPurchaseProNewest ==
  (/\ calls["p1"].pc = "b_linksub" /\ calls'["p1"].pc # "b_linksub"
   /\ subs # <<>> /\ subs[1] \in ActiveStatuses
   /\ ~(BootAnswered /\ last'.billingThrew))
    => BootAnswered /\ last'.ret.mode = "pro"

\* C12: for one address, the first boot answers mode=trial with daysTotal=7
\* and daysUsed=0; a boot 8 days later without purchase answers
\* mode=trial_expired; a boot after the checkout webhook wrote the by-email
\* license record, while the customer has an active subscription, answers
\* mode=pro
C12_Lifecycle ==
  [][FirstBootStartsTrial /\ LaterBootExpired /\ BootAfterPurchasePro]_vars

\* the parts of C12 the code keeps
C12_TrialPart == [][FirstBootStartsTrial /\ LaterBootExpired]_vars
C12_NewestActivePart == [][BootAfterPurchaseProNewest]_vars

----------------------------------------------------------------------------
(* Claims about failures of the billing provider in requireAccess *)

\* C13: a requireAccess call whose subscription listing throws (the key
\* names a customer, or the email has a license record) returns a deny
\* verdict with reason PAYWALL_ERROR and lets no exception out
C13_NoThrowAcrossBoundary ==
  (last.op = "requireAccess" /\ last.billingThrew)
    => /\ last.ret.kind = "verdict"
       /\ ~last.ret.ok
       /\ last.ret.error = "PAYWALL_ERROR"

----------------------------------------------------------------------------
(* Claims about where the gates take the license key from *)

\* the request l carries KeyA as its license key (query parameter key first,
\* then header X-License-Key) and the gate answered from the subscriptions of
\* the customer KeyA names
VerifiedWithKeyA(l) ==
  (readLicenseFrom(l.req) = KeyA)
    => /\ l.ret.error \notin {"UPGRADE_REQUIRED", "LEGACY_LICENSE_FORMAT"}
       /\ l.ret.via # "trial"
       /\ (stripeKeySet /\ ~l.billingThrew /\ subs # <<>> /\ subs[1] \in ActiveStatuses)
            => l.ret.ok /\ l.ret.customerId = CusA

\* C14: requirePro and requireAccess take the license key from the query
\* parameter key when present and otherwise from the header X-License-Key; a
\* request with a valid key only in the header is verified with that key
C14_KeySourcePrecedence ==
  (last.op \in {"requirePro", "requireAccess"}) => VerifiedWithKeyA(last)

\* the part of C14 about requirePro
C14_RequireProPart == (last.op = "requirePro") => VerifiedWithKeyA(last)

----------------------------------------------------------------------------
(* Claims about the deny responses *)

\* the report route, POST: if (!pro.ok) return NextResponse.json(
\* { message: "Pro required", upgradeUrl: "/pricing" }, { status: pro.status ?? 402 })
ReportPostDeny(pro) ==
  [NoRet EXCEPT !.kind = "json", !.status = pro.status, !.message = TRUE,
                !.upgradeUrl = "/pricing"]

\* a deny with error code, message, upgradeUrl and the status of its kind
DenyContract(r, verificationFailed) ==
  /\ r.error # ""
  /\ r.message
  /\ r.upgradeUrl = "/pricing"
  /\ r.status = IF verificationFailed THEN 401 ELSE 402

DenyOf(l) == l.op \in {"requirePro", "requireAccess"} /\ l.ret.kind = "verdict" /\ ~l.ret.ok

\* C15: every deny of requirePro and requireAccess, and the deny response the
\* report route derives from requirePro's, carries an error code, a message
\* and upgradeUrl="/pricing", with status 402 for payment-required denials
\* and 401 for verification failures
C15_DenyContract ==
  DenyOf(last)
    => /\ DenyContract(last.ret, last.billingThrew)
       /\ (last.op = "requirePro")
            => DenyContract(ReportPostDeny(last.ret), last.billingThrew)

\* the parts of C15: the gates' own payment-required denials, their denials
\* after a failed verification, and the route's response
C15_GatePaymentRequired ==
  (DenyOf(last) /\ ~last.billingThrew) => DenyContract(last.ret, FALSE)
C15_GateVerificationFailed ==
  (DenyOf(last) /\ last.billingThrew) => DenyContract(last.ret, TRUE)
C15_RouteDeny ==
  (DenyOf(last) /\ last.op = "requirePro" /\ ~last.billingThrew)
    => DenyContract(ReportPostDeny(last.ret), FALSE)

----------------------------------------------------------------------------
(* Claims about the rate limiter *)

\* C16: whatever the arrival times of 31 licensed requests of one client
\* within 60 seconds, the 31st is answered 429 RATE_LIMITED with a
\* Retry-After of at least 1 second
C16_ThirtyFirstDenied ==
  (rlCount = MAX_PER_MIN + 1 /\ rlResp # NoListResp /\ rlResp.error # "PRO_REQUIRED")
    => /\ rlResp.status = 429
       /\ rlResp.error = "RATE_LIMITED"
       /\ rlResp.retryAfter >= 1

\* what the limiter does keep: a request refused by it is answered 429
\* RATE_LIMITED with Retry-After >= 1, and 31 requests at one instant are
\* refused at the 31st
C16_DeniedShape ==
  (rlResp.error = "RATE_LIMITED") => rlResp.status = 429 /\ rlResp.retryAfter >= 1
C16_BurstDenied ==
  (rlCount = MAX_PER_MIN + 1 /\ now = 0 /\ rlResp.error # "PRO_REQUIRED")
    => rlResp.error = "RATE_LIMITED"

----------------------------------------------------------------------------
(* Claims about the license records *)

\* a step keeps every history entry and, when it is a put to
\* licenses_history/, adds one
HistoryAppended ==
  /\ \A e \in licHistory : e \in licHistory'
  /\ (histPuts' # histPuts) => Cardinality(licHistory') = Cardinality(licHistory) + 1

\* C17: in every interleaving of saveLicenseRecord calls (webhook handlers,
\* admin issue, admin revoke), two writes at the same instant included, each
\* call adds a new licenses_history entry and no history entry is ever
\* overwritten
C17_HistoryAppendOnly == [][HistoryAppended]_vars

\* the part of C17 the code keeps: a put at an instant at which no history
\* entry was written before appends
C17_AppendAtFreshInstant ==
  [][(\A e \in licHistory : e.path # HistoryPath(now)) => HistoryAppended]_vars

----------------------------------------------------------------------------
(* Claims about revocation *)

\* an admin revoke has completed and Stripe created no subscription since
\* its listing
RevokedNoNewSub == revoked.done /\ Len(subs) = revoked.listed

\* C18: after the admin revoke handler has completed, every subscription it
\* found active, trialing, past_due, unpaid or incomplete is cancelled, and
\* until a new subscription is created requirePro with a key of that
\* customer denies with SUB_INACTIVE (the listing having returned)
C18_RevokedThenDenied ==
  RevokedNoNewSub
    => /\ \A id \in revoked.targets : subs[SubAt(id)] = "canceled"
       /\ (last.op = "requirePro" /\ readLicenseFrom(last.req) = KeyA)
            => /\ ~last.ret.ok
               /\ ~last.billingThrew => last.ret = Deny(402, "SUB_INACTIVE")

\* the part of C18 the code keeps: the subscriptions the handler chose are
\* cancelled when it completes
C18_ChosenCancelled ==
  RevokedNoNewSub => \A id \in revoked.targets : subs[SubAt(id)] = "canceled"

----------------------------------------------------------------------------
(* Claims about re-issued keys *)

KeyOfCusA(l) == l.op = "requirePro" /\ customerIdFromLicense(readLicenseFrom(l.req)) = CusA

\* C19: two requirePro calls that present keys embedding the same customer
\* id in the same billing state (same subscriptions, same outcome of the
\* listing) get the same verdict, whichever key strings they present and
\* whichever key was issued last
C19_SameVerdictForSameCustomer ==
  [][(/\ KeyOfCusA(last) /\ KeyOfCusA(last')
      /\ last.billingThrew = last'.billingThrew)
       => last'.ret = last.ret]_vars

\* a key issued earlier is accepted after another key was issued
C19_Witness ==
  /\ last.op = "requirePro"
  /\ readLicenseFrom(last.req) = KeyA
  /\ custMeta = KeyB
  /\ licLatest.exists /\ licLatest.licenseKey = KeyB
  /\ last.ret.ok

----------------------------------------------------------------------------
(* Claims about concurrent first boots *)

\* no ensureTrialByEmail call has a put to the trial file of ek ahead of it
NoWriterInFlight(ek) ==
  \A p \in Procs : ~(calls[p].pc = "e_put" /\ emailKey(trim(calls[p].req.email)) = ek)

----------------------------------------------------------------------------
(* Claims about the latest pointer *)

\* the handler h of the subscription event type returns its response in this
\* step, its saveLicenseRecord done, while no other handler is in flight
SubscriptionHandled(h, type) ==
  /\ hooks[h].op = type
  /\ hooks[h].pc \in {"latest", "byemail", "history"}
  /\ hooks'[h].pc = "idle"
  /\ \A g \in HookProcs \ {h} : hooks[g].pc = "idle"

LatestIsOf(type) == licLatest'.exists /\ licLatest'.source = type

\* C21: the handler of every subscription lifecycle webhook
\* (customer.subscription.created, updated, deleted) rewrites
\* licenses/<customerId>.json, so that the pointer holds the record of the
\* event handled last
C21_LatestFollowsEvents ==
  [][\A h \in HookProcs, type \in SubscriptionEvents :
       SubscriptionHandled(h, type) => LatestIsOf(type)]_vars

----------------------------------------------------------------------------
(* The cookie trial: trial.ts, the edge middleware, GET /api/trial/status *)

\* trial.ts getTrialDays: the default when TRIAL_DAYS is missing or invalid
CookieDefaultDays == 7

\* trial.ts getTrialDays, read on every call.  Number of the model yields
\* integers only, on which Math.floor changes nothing.
getTrialDays(env) ==
  LET raw == trim(env)
      n == IF raw # <<>> THEN Number(raw) ELSE NaN
  IN IF ~n.finite \/ n.n <= 0 THEN CookieDefaultDays ELSE n.n

\* middleware: ALLOWLIST_PREFIXES
ALLOWLIST_PREFIXES == {
  <<"/","a","p","i","/","t","r","i","a","l","/","b","o","o","t">>,
  <<"/","a","p","i","/","t","r","i","a","l","/","s","t","a","t","u","s">>,
  <<"/","a","p","i","/","l","i","c","e","n","s","e","/","s","t","a","t","u","s">>,
  <<"/","a","p","i","/","s","t","r","i","p","e","/","w","e","b","h","o","o","k">>,
  <<"/","a","p","i","/","s","t","r","i","p","e","/","c","r","e","a","t","e","-","c","h","e","c","k","o","u","t","-","s","e","s","s","i","o","n">>,
  <<"/","a","p","i","/","s","t","r","i","p","e","/","c","r","e","a","t","e","-","p","o","r","t","a","l","-","s","e","s","s","i","o","n">>,
  <<"/","a","p","i","/","s","t","r","i","p","e","/","g","e","t","-","l","i","c","e","n","s","e","-","f","r","o","m","-","s","e","s","s","i","o","n">>,
  <<"/","a","p","i","/","p","r","i","c","i","n","g">>,
  <<"/","a","p","i","/","p","r","i","v","a","c","y">>,
  <<"/","a","p","i","/","a","d","m","i","n","/","l","i","c","e","n","s","e">>,
  <<"/","a","p","i","/","a","d","m","i","n","/","g","i","f","t","s","/","i","s","s","u","e","-","s","t","r","i","p","e">>,
  <<"/","a","p","i","/","a","d","m","i","n","/","g","i","f","t","s","/","r","e","v","o","k","e","-","s","t","r","i","p","e">>
}

ApiPrefix == <<"/","a","p","i","/">>
PathPage == <<"/","r","e","p","o","r","t">>
PathScan == <<"/","a","p","i","/","b","e","l","i","e","f","s","/","s","c","a","n">>
PathStatus == <<"/","a","p","i","/","t","r","i","a","l","/","s","t","a","t","u","s">>

\* paths requested: a page, a feature route, an allowlisted route
EdgePaths == {PathPage, PathScan, PathStatus}

\* middleware: isAllowlisted
isAllowlisted(pathname) == \E p \in ALLOWLIST_PREFIXES : startsWith(pathname, p)

\* trial.ts parseCookieHeader: decodeURIComponent of every value of the
\* header throws a URIError on a malformed percent escape
parseCookieHeaderThrows(h) == h.foreignBad \/ (h.has /\ h.kind = "badpct")

\* trial.ts readTrialCookie: startedAt only when the decoded value is not empty
readTrialCookie(h) ==
  IF parseCookieHeaderThrows(h) THEN [threw |-> TRUE, has |-> FALSE, kind |-> "none", iso |-> <<0, 0>>]
  ELSE IF h.has /\ h.kind # "empty"
    THEN [threw |-> FALSE, has |-> TRUE, kind |-> h.kind, iso |-> h.iso]
    ELSE [threw |-> FALSE, has |-> FALSE, kind |-> "none", iso |-> <<0, 0>>]

RemainingThrew == [threw |-> TRUE, isActive |-> FALSE, daysLeft |-> 0, endsAtISO |-> <<0, 0>>]

\* mutation: the remaining days are rounded down instead of up
trialRemainingDaysFloor(h, nowT, env) ==
  LET c == readTrialCookie(h)
      trialDays == getTrialDays(env)
  IN IF c.threw THEN RemainingThrew
     ELSE IF ~c.has
       THEN [threw |-> FALSE, isActive |-> FALSE, daysLeft |-> 0, endsAtISO |-> toISOString(0)]
     ELSE IF c.kind # "iso" THEN RemainingThrew
     ELSE LET end == DateOf(c.iso) + trialDays * Day
              delta == end - nowT
          IN [threw |-> FALSE,
              isActive |-> nowT < end,
              daysLeft |-> Max({0, delta \div Day}),
              endsAtISO |-> toISOString(end)]

\* trial.ts trialRemainingDays(req, now).  A value that is no date gives an
\* Invalid Date, on which end.toISOString() throws a RangeError.
trialRemainingDays(h, nowT, env) ==
  LET c == readTrialCookie(h)
      trialDays == getTrialDays(env)
  IN IF c.threw THEN RemainingThrew
     ELSE IF ~c.has
       THEN [threw |-> FALSE, isActive |-> FALSE, daysLeft |-> 0, endsAtISO |-> toISOString(0)]
     ELSE IF c.kind # "iso" THEN RemainingThrew
     ELSE LET end == DateOf(c.iso) + trialDays * Day
              delta == end - nowT
          IN [threw |-> FALSE,
              isActive |-> nowT < end,
              daysLeft |-> Max({0, CeilDiv(delta, Day)}),
              endsAtISO |-> toISOString(end)]

\* trial.ts startTrialCookie(res, now)
startTrialCookie(nowT, env) ==
  [set |-> TRUE, value |-> toISOString(nowT), maxAge |-> getTrialDays(env) * Day]

MwNext == [out |-> "next", status |-> 0, error |-> "", cookie |-> NoSetCookie]
MwThrew == [out |-> "threw", status |-> 0, error |-> "", cookie |-> NoSetCookie]
MwDeny == [out |-> "deny", status |-> 402, error |-> "TRIAL_EXPIRED", cookie |-> NoSetCookie]

\* middleware(req): nothing in it catches what readTrialCookie or
\* trialRemainingDays throw
middleware(req, nowT, env) ==
  IF ~startsWith(req.path, ApiPrefix) THEN MwNext
  ELSE IF isAllowlisted(req.path) THEN MwNext
  ELSE LET cookies == readTrialCookie(req.header)
       IN IF cookies.threw THEN MwThrew
          ELSE IF ~cookies.has
            THEN [MwNext EXCEPT !.cookie = startTrialCookie(nowT, env)]
          ELSE LET r == trialRemainingDays(req.header, nowT, env)
                   hasLicenseMarker == trim(req.key) # <<>> \/ trim(req.hdrKey) # <<>>
               IN IF r.threw THEN MwThrew
                  ELSE IF ~r.isActive /\ ~hasLicenseMarker THEN MwDeny
                  ELSE MwNext

\* GET /api/trial/status, a route of the allowlist
StatusGET(h, nowT, env) ==
  LET c == readTrialCookie(h)
      status == trialRemainingDays(h, nowT, env)
  IN IF c.threw \/ status.threw THEN [NoSt EXCEPT !.threw = TRUE]
     ELSE [threw |-> FALSE, status |-> 200,
           trialDays |-> getTrialDays(env),
           hasStartedAt |-> c.has,
           isActive |-> IF c.has THEN status.isActive ELSE FALSE,
           daysLeft |-> IF c.has THEN status.daysLeft ELSE getTrialDays(env),
           hasEndsAt |-> c.has,
           endsAtISO |-> IF c.has THEN status.endsAtISO ELSE <<0, 0>>]

IsoHeader(iso) == [has |-> TRUE, kind |-> "iso", iso |-> iso, foreignBad |-> FALSE]

\* Cookie headers a client can write by hand: none, another cookie with a
\* malformed escape, the trial cookie empty, malformed, no date, or an instant
CraftedHeaders ==
  { NoHeader,
    [NoHeader EXCEPT !.foreignBad = TRUE],
    [has |-> TRUE, kind |-> "empty", iso |-> <<0, 0>>, foreignBad |-> FALSE],
    [has |-> TRUE, kind |-> "badpct", iso |-> <<0, 0>>, foreignBad |-> FALSE],
    [has |-> TRUE, kind |-> "text", iso |-> <<0, 0>>, foreignBad |-> FALSE] }
  \cup { IsoHeader(toISOString(s)) : s \in {0, 1} }

\* ?key= and X-License-Key of a request: neither, a blank key, a key in the
\* query, a key in the header
EdgeMarkers == { [key |-> <<>>, hdrKey |-> <<>>],
                 [key |-> <<" ">>, hdrKey |-> <<>>],
                 [key |-> KeyA, hdrKey |-> <<>>],
                 [key |-> <<>>, hdrKey |-> KeyA] }

\* the Cookie header a browser sends: the stored cookie until its Max-Age ends
JarHeader == IF jar.has /\ now < jar.dropAt THEN IsoHeader(jar.value) ELSE NoHeader

\* the trial of the cookie the browser stored last has run out
JarExpired == jar.has /\ now >= DateOf(jar.value) + getTrialDays(trialEnv) * Day

\* a browser requests path: the middleware answers, the browser stores the
\* cookie of the answer
BrowserCall(path, m) ==
  LET req == [path |-> path, header |-> JarHeader, key |-> m.key, hdrKey |-> m.hdrKey]
      ret == middleware(req, now, trialEnv)
  IN /\ ckResp' = [op |-> "middleware", browser |-> TRUE, req |-> req, at |-> now,
                   prevExpired |-> JarExpired, mw |-> ret, st |-> NoSt]
     /\ jar' = IF ret.cookie.set
                 THEN [has |-> TRUE, value |-> ret.cookie.value,
                       dropAt |-> now + ret.cookie.maxAge]
                 ELSE jar
     /\ last' = NoLast
     /\ UNCHANGED <<trialEnv, usage, qResp, gateRest, licVars, subVars, hookVars, rlVars, revVars>>

\* a client that writes its own Cookie header requests path
CraftedCall(path, h, m) ==
  LET req == [path |-> path, header |-> h, key |-> m.key, hdrKey |-> m.hdrKey]
  IN /\ ckResp' = [op |-> "middleware", browser |-> FALSE, req |-> req, at |-> now,
                   prevExpired |-> FALSE, mw |-> middleware(req, now, trialEnv),
                   st |-> NoSt]
     /\ last' = NoLast
     /\ UNCHANGED <<trialEnv, jar, usage, qResp, gateRest, licVars, subVars, hookVars,
                    rlVars, revVars>>

\* GET /api/trial/status with the browser's header or a hand-written one: the
\* middleware lets the allowlisted path through, the route answers
StatusCall(h, byBrowser) ==
  LET req == [path |-> PathStatus, header |-> h, key |-> <<>>, hdrKey |-> <<>>]
  IN /\ byBrowser => h = JarHeader
     /\ ckResp' = [op |-> "status", browser |-> byBrowser, req |-> req, at |-> now,
                   prevExpired |-> byBrowser /\ JarExpired,
                   mw |-> middleware(req, now, trialEnv),
                   st |-> StatusGET(h, now, trialEnv)]
     /\ last' = NoLast
     /\ UNCHANGED <<trialEnv, jar, usage, qResp, gateRest, licVars, subVars, hookVars,
                    rlVars, revVars>>

\* time passes, to the seconds around the start and the end of a trial
CookieTick(t) ==
  /\ t \in ClockInstants(getTrialDays(trialEnv))
  /\ t > now
  /\ now' = t
  /\ last' = NoLast
  /\ UNCHANGED <<TRIAL_DAYS, stripeKeySet, trials, licByEmail, calls, lastEnsure,
                 licVars, subVars, extVars>>

InitCookie ==
  /\ LicQuiet
  /\ subs = <<>> /\ subsOut = NoSubsOut
  /\ now = 0
  /\ trialEnv \in EnvTrialDays
  /\ TRIAL_DAYS = readTrialDays(trialEnv)
  /\ stripeKeySet = TRUE
  /\ trials = [k \in EmailKeys |-> NoTrialBlob]
  /\ licByEmail = [k \in EmailKeys |-> NoLicBlob]
  /\ calls = [p \in Procs |-> Idle]
  /\ last = NoLast
  /\ lastEnsure = [k \in EmailKeys |-> <<>>]
  /\ HookQuiet /\ RateQuiet /\ revoked = NoRevoked
  /\ jar = NoJar /\ ckResp = NoCkResp /\ usage = <<>> /\ qResp = NoQResp

NextCookie ==
  \/ \E path \in EdgePaths, m \in EdgeMarkers : BrowserCall(path, m)
  \/ \E path \in EdgePaths, h \in CraftedHeaders, m \in EdgeMarkers :
       CraftedCall(path, h, m)
  \/ \E h \in CraftedHeaders \cup {JarHeader}, byBrowser \in BOOLEAN :
       StatusCall(h, byBrowser)
  \/ \E t \in ClockInstants(getTrialDays(trialEnv)) : CookieTick(t)

SpecCookie == InitCookie /\ [][NextCookie]_vars

----------------------------------------------------------------------------
(* Properties of the cookie trial *)

\* the middleware ran on the request of the latest answer
MiddlewareRan == ckResp.op \in {"middleware", "status"}

\* C22: every request to a path under /api/ that carries no
\* db_trial_started_at cookie is let through by the middleware with that
\* cookie set to the current time
C22_FirstApiCallStartsTrial ==
  (MiddlewareRan /\ startsWith(ckResp.req.path, ApiPrefix) /\ ~ckResp.req.header.has)
    => /\ ckResp.mw.out = "next"
       /\ ckResp.mw.cookie.set
       /\ ckResp.mw.cookie.value = toISOString(ckResp.at)

\* the request met the trial check of the middleware: under /api/, not allowlisted
Gated(req) == startsWith(req.path, ApiPrefix) /\ ~isAllowlisted(req.path)

\* the cookie trial of header h is still running at instant t
CookieTrialActive(h, t) ==
  h.has /\ h.kind = "iso" /\ t < DateOf(h.iso) + getTrialDays(trialEnv) * Day

\* a key is presented in ?key= or X-License-Key (blank values count as none,
\* as the code reads them)
KeyPresented(req) == trim(req.key) # <<>> \/ trim(req.hdrKey) # <<>>

\* C23: a non-allowlisted /api/ request that carries a trial cookie is
\* denied with 402 TRIAL_EXPIRED exactly when its trial is no longer active
\* and no key is presented; otherwise it is passed on and no cookie is set
C23_VerdictWithCookie ==
  (ckResp.op = "middleware" /\ Gated(ckResp.req) /\ ckResp.req.header.has)
    => IF ~CookieTrialActive(ckResp.req.header, ckResp.at) /\ ~KeyPresented(ckResp.req)
         THEN ckResp.mw = MwDeny
         ELSE ckResp.mw = MwNext

\* the start time of header h cannot be read
Unparseable(h) == h.has /\ h.kind \in {"badpct", "text"}

\* C27: whatever the db_trial_started_at cookie holds, the middleware and
\* GET /api/trial/status answer without throwing, and a start time that
\* cannot be read is never reported as an active trial
C27_NoThrowForAnyCookie ==
  (ckResp.op # "none")
    => /\ ckResp.mw.out # "threw"
       /\ ~ckResp.st.threw
       /\ Unparseable(ckResp.req.header) => ~ckResp.st.isActive

\* GET /api/trial/status answered a request whose trial cookie holds an instant
StatusOfValidCookie ==
  /\ ckResp.op = "status"
  /\ ckResp.req.header.has /\ ckResp.req.header.kind = "iso"
  /\ ~ckResp.st.threw

\* C24: the cookie trial and the email trial use the same duration and the
\* same expiry arithmetic: getTrialDays() equals TRIAL_DAYS of access.ts, a
\* positive integer, and for the same start instant trialRemainingDays and
\* computeCookieTrial give the same expiry instant and the same active flag
C24_SameDurationAndExpiry ==
  StatusOfValidCookie
    => LET c == computeCookieTrial(ckResp.req.header.iso, ckResp.at, TRIAL_DAYS)
       IN /\ ckResp.st.trialDays = TRIAL_DAYS
          /\ ckResp.st.trialDays \in Nat \ {0}
          /\ ckResp.st.endsAtISO = c.expiresAt
          /\ ckResp.st.isActive = c.active

\* the part of C24 that holds: given one number of days, both functions
\* compute the same expiry instant and the same active flag
C24_SameArithmetic ==
  StatusOfValidCookie
    => LET c == computeCookieTrial(ckResp.req.header.iso, ckResp.at, ckResp.st.trialDays)
       IN /\ ckResp.st.endsAtISO = c.expiresAt
          /\ ckResp.st.isActive = c.active

\* C25: a browser that stores the cookie and honours its Max-Age gets no new
\* cookie trial once its trial has run out: every request it makes to a
\* non-allowlisted /api/ path without a key after the trial window is denied
\* with 402 TRIAL_EXPIRED and sets no db_trial_started_at cookie
C25_NoNewTrialAfterExpiry ==
  (/\ ckResp.op = "middleware"
   /\ ckResp.browser
   /\ ckResp.prevExpired
   /\ Gated(ckResp.req)
   /\ ~KeyPresented(ckResp.req))
    => ckResp.mw = MwDeny

\* C30: for a request with a valid trial cookie GET /api/trial/status reports
\* isActive exactly when daysLeft >= 1, daysLeft 0 from the expiry instant
\* on, daysLeft at most the trial days once now has reached startedAt, and
\* the values are those of the instant of the call: isActive says whether
\* the expiry lies ahead, daysLeft is the least number of whole days that
\* reaches it
C30_StatusArithmetic ==
  StatusOfValidCookie
    => LET r == ckResp.st
           start == DateOf(ckResp.req.header.iso)
           end == start + getTrialDays(trialEnv) * Day
       IN /\ r.status = 200 /\ r.hasStartedAt /\ r.hasEndsAt
          /\ r.trialDays = getTrialDays(trialEnv)
          /\ r.isActive <=> r.daysLeft >= 1
          /\ ckResp.at >= end => r.daysLeft = 0
          /\ ckResp.at >= start => r.daysLeft <= r.trialDays
          /\ r.isActive <=> ckResp.at < end
          /\ r.endsAtISO = toISOString(end)
          /\ r.daysLeft >= 0
          /\ r.daysLeft * Day >= end - ckResp.at
          /\ r.daysLeft > 0 => (r.daysLeft - 1) * Day < end - ckResp.at

\* C30 witness: the status of a valid cookie asked one second before its
\* expiry: still active, one day left
C30_Witness ==
  /\ StatusOfValidCookie
  /\ ckResp.at = DateOf(ckResp.req.header.iso) + getTrialDays(trialEnv) * Day - 1
  /\ ckResp.st.isActive
  /\ ckResp.st.daysLeft = 1

----------------------------------------------------------------------------
(* Two people with two addresses: the owner of a@b starts a trial and buys,  *)
(* the owner of a_b only asks for access                                    *)

\* an address of another person: it differs from a@b after trimming and
\* lowercasing
EmailU == <<"a","_","b">>

InitIdentity ==
  /\ LicQuiet
  /\ now = 0
  /\ TRIAL_DAYS = readTrialDays(<<>>)
  /\ stripeKeySet = TRUE
  /\ subs = <<"active">>
  /\ trials = [ek \in EmailKeys |-> NoTrialBlob]
  /\ licByEmail = [ek \in EmailKeys |-> NoLicBlob]
  /\ calls = [p \in Procs |-> Idle]
  /\ last = NoLast
  /\ lastEnsure = [ek \in EmailKeys |-> <<>>]
  /\ ExtQuiet

NextIdentity ==
  \/ \E t \in ClockInstants(TRIAL_DAYS) : Tick(t)
  \/ BootStart("p1", [NoReq EXCEPT !.email = EmailA])
  \/ Boot_FindLicense("p1")
  \/ \E out \in BillingOutcomes(CusA) : Boot_LinkSub("p1", out)
  \/ Boot_ReadTrial("p1")
  \/ Ensure_Read("p1")
  \/ Ensure_Put("p1")
  \/ Webhook_Checkout("h1", EmailA, KeyBytesA)
  \/ \E threw \in BOOLEAN : Hook_UpdateMeta("h1", threw)
  \/ Save_Latest("h1")
  \/ Save_ByEmail("h1")
  \/ Save_History("h1")
  \/ \E allowTrial \in BOOLEAN, out \in BillingOutcomes(Null) :
       RequireAccessStart("p2", [NoReq EXCEPT !.email = EmailU], allowTrial, out)
  \/ RA_FindLicense("p2")
  \/ \E out \in BillingOutcomes(CusA) : RA_LinkSub("p2", out)
  \/ RA_Trial("p2")

SpecIdentity == InitIdentity /\ [][NextIdentity]_vars

\* C26: two addresses that differ after trimming and lowercasing have
\* different keys, so the trial started and the license indexed for a@b are
\* never returned for a_b: the owner of a_b, who never started a trial nor
\* bought, is answered 402 UPGRADE_REQUIRED by requireAccess
C26_DistinctEmailsApart ==
  (/\ toLowerCase(trim(EmailU)) # toLowerCase(trim(EmailA))
   /\ last.op = "requireAccess"
   /\ last.req.email = EmailU)
    => last.ret = Deny(402, "UPGRADE_REQUIRED")

\* the part of C26 about the trial alone: access by a trial is never granted
\* to the owner of a_b
C26_TrialApart ==
  (last.op = "requireAccess" /\ last.req.email = EmailU) => last.ret.via # "trial"

----------------------------------------------------------------------------
(* A purchase: Stripe delivers checkout.session.completed and               *)
(* customer.subscription.created for cus_A, each until it has been handled, *)
(* and the two handlers run side by side                                    *)

\* no delivery of the event has been handled to its end yet
NotYetHandled(type) == \A e \in licHistory : e.record.source # type

InitRace ==
  /\ LicQuiet
  /\ GateQuiet
  /\ subs = <<"active">>
  /\ ExtQuiet

NextRace ==
  \/ HookTick
  \/ /\ NotYetHandled("checkout.session.completed")
     /\ \E bytes \in HookBytes : Webhook_Checkout("h1", EmailA, bytes)
  \/ /\ NotYetHandled("customer.subscription.created")
     /\ Webhook_Subscription("h2", "customer.subscription.created")
  \/ \E h \in HookProcs :
       \/ \E threw \in BOOLEAN, bytes \in HookBytes : Hook_Retrieve(h, threw, bytes)
       \/ \E threw \in BOOLEAN : Hook_UpdateMeta(h, threw)
       \/ Save_Latest(h)
       \/ Save_ByEmail(h)
       \/ Save_History(h)

SpecRace == InitRace /\ [][NextRace]_vars

\* both events have been handled: each handler ends with its history put,
\* and a second put is made only after the other event's
BothHandled ==
  /\ histPuts >= 2
  /\ \A h \in HookProcs : hooks[h].pc = "idle"

\* C28: once checkout.session.completed and customer.subscription.created
\* of the customer have both been handled, however their calls interleaved,
\* metadata.license_key of the customer equals the licenseKey of
\* licenses/<customerId>.json
C28_StoresAgreeAfterRace ==
  BothHandled => (licLatest.exists /\ custMeta = licLatest.licenseKey)

----------------------------------------------------------------------------
(* The daily free quota of /api/beliefs/scan: quota.ts *)

MaxGrants == 6     \* calls of one key answered allowed that are counted

\* beliefs/scan: incAndCheck(userKey, 5)
ScanLimit == 5

Sep == <<":", ":">>

RECURSIVE splitSepFrom(_, _)
splitSepFrom(s, cur) ==
  IF s = <<>> THEN <<cur>>
  ELSE IF startsWith(s, Sep) THEN <<cur>> \o splitSepFrom(SubSeq(s, 3, Len(s)), <<>>)
  ELSE splitSepFrom(Tail(s), Append(cur, Head(s)))

\* String.prototype.split("::")
splitSep(s) == splitSepFrom(s, <<>>)

\* quota.ts getDayStamp(new Date()): YYYY-MM-DD in UTC, for the instants of
\* January 1970, where the clock of this specification stays
getDayStamp(t) ==
  LET dd == (t \div Day) + 1
  IN <<"1","9","7","0","-","0","1","-">> \o <<Digits[(dd \div 10) + 1], Digits[(dd % 10) + 1]>>

\* beliefs/scan getAnonId: the anonId of the body, or ip:<address>; here a
\* body anonId and the IPv6 loopback ::1
AnonU == <<"u">>
AnonIds == { AnonU, <<"i","p",":",":",":","1">> }

\* beliefs/scan: userKey of a caller at instant t
userKey(anonId, t) == anonId \o Sep \o getDayStamp(t)

\* the instants of the quota clock: one day and the next
QuotaInstants == {0, Day}

QuotaKeys == {userKey(a, t) : a \in AnonIds, t \in QuotaInstants}

\* the key of caller u on the first day
KeyU == userKey(AnonU, 0)

\* the sweep of incAndCheck: today is the second "::" field of the calling
\* key, every entry whose second field differs is deleted
sweepUsage(u, key) ==
  LET today == splitSep(key)[2]
  IN [k \in DOMAIN u |->
        IF u[k] > 0 /\ includes(k, Sep) /\ splitSep(k)[2] # today THEN 0 ELSE u[k]]

\* quota.ts incAndCheck(key, limit); sweep says whether Math.random() < 0.02
incAndCheck(u, key, limit, sweep) ==
  LET current == u[key]
      next == current + 1
      u1 == [u EXCEPT ![key] = next]
  IN IF current >= limit
       THEN [usage |-> u, allowed |-> FALSE, count |-> current, limit |-> limit]
       ELSE [usage |-> IF sweep THEN sweepUsage(u1, key) ELSE u1,
             allowed |-> TRUE, count |-> next, limit |-> limit]

\* POST /api/beliefs/scan up to the quota verdict
ScanPOST(anonId, sweep) ==
  LET key == userKey(anonId, now)
      r == incAndCheck(usage, key, ScanLimit, sweep)
  IN /\ qResp.grants < MaxGrants
     /\ usage' = r.usage
     /\ qResp' = [called |-> TRUE, key |-> key, at |-> now, allowed |-> r.allowed,
                  count |-> r.count, limit |-> r.limit, swept |-> sweep /\ r.allowed,
                  before |-> usage,
                  grants |-> IF r.allowed /\ key = KeyU
                               THEN qResp.grants + 1 ELSE qResp.grants]
     /\ last' = NoLast
     /\ UNCHANGED <<trialEnv, jar, ckResp, gateRest, licVars, subVars, hookVars,
                    rlVars, revVars>>

QuotaTick(t) ==
  /\ t \in QuotaInstants
  /\ t > now
  /\ now' = t
  /\ last' = NoLast
  /\ UNCHANGED <<TRIAL_DAYS, stripeKeySet, trials, licByEmail, calls, lastEnsure,
                 licVars, subVars, extVars>>

InitQuota ==
  /\ LicQuiet
  /\ subs = <<>>
  /\ now = 0
  /\ TRIAL_DAYS = readTrialDays(<<>>)
  /\ stripeKeySet = TRUE
  /\ trials = [k \in EmailKeys |-> NoTrialBlob]
  /\ licByEmail = [k \in EmailKeys |-> NoLicBlob]
  /\ calls = [p \in Procs |-> Idle]
  /\ last = NoLast
  /\ lastEnsure = [k \in EmailKeys |-> <<>>]
  /\ HookQuiet /\ RateQuiet /\ revoked = NoRevoked
  /\ trialEnv = <<>> /\ jar = NoJar /\ ckResp = NoCkResp
  /\ usage = [k \in QuotaKeys |-> 0]
  /\ qResp = [NoQResp EXCEPT !.before = usage]

NextQuota ==
  \/ \E anonId \in AnonIds, sweep \in BOOLEAN : ScanPOST(anonId, sweep)
  \/ \E t \in QuotaInstants : QuotaTick(t)

SpecQuota == InitQuota /\ [][NextQuota]_vars

\* the keys of the day of the latest call
KeysOfThatDay == {userKey(a, qResp.at) : a \in AnonIds}

\* C29: with keys <anonId>::<day> and limit 5, at most 5 calls of a key (that
\* of caller u on the first day is counted) are answered allowed, no stored count exceeds 5, no count of a key of the
\* current day decreases, and a denied call leaves every count as it was
C29_DailyQuota ==
  qResp.called
    => /\ qResp.grants <= ScanLimit
       /\ \A k \in QuotaKeys : usage[k] <= ScanLimit
       /\ \A k \in KeysOfThatDay : usage[k] >= qResp.before[k]
       /\ ~qResp.allowed => usage = qResp.before

\* the part of C29 that holds: no stored count exceeds the limit, a denied
\* call changes nothing, and a call that does not sweep lowers no count
C29_CapAndDenied ==
  qResp.called
    => /\ \A k \in QuotaKeys : usage[k] <= ScanLimit
       /\ ~qResp.allowed => usage = qResp.before
       /\ ~qResp.swept => \A k \in QuotaKeys : usage[k] >= qResp.before[k]

====
